---- MODULE Spec2Model ----
(***************************************************************************)
(* PropertySyncer (src/src/index.js, the exported module that starts at    *)
(* line 150): a Vue watch-based engine that copies values found at paths   *)
(* of a source object into target refs.                                    *)
(*                                                                         *)
(* JavaScript objects live in a heap (a sequence of objects, an address is *)
(* an index), so that identity (===), aliasing and in-place mutation are   *)
(* what they are in the program.                                           *)
(***************************************************************************)
EXTENDS Integers, Sequences, FiniteSets, TLC

VARIABLES
    heap,        \* the JavaScript heap: a sequence of objects
    arr,         \* one call of updateArray: its arguments and the heap before it
    pathCache,   \* the module's pathCache: raw path string -> accessor
    cfg,         \* what the caller hands to the engine: source, mappings, options
    pc,          \* "init" before the engine is started, then "running" or "failed"
    subs,        \* the watches the engine created, in creation order
    stops,       \* the stops array of the cleanup closure (indices into subs)
    cleanupKind, \* which function the caller got back: "none", "noop" or "stops"
    warnedPaths, \* the engine's warnedPaths set
    warnings,    \* the paths console.warn was called for, in order
    hooks,       \* onUnmounted hooks registered and not yet run
    pending,     \* the host scheduler has watcher jobs queued
    calls,       \* [stop, mutations]: calls of the cleanup function, source writes
    raised       \* the calls of the API that threw to their caller

vars == <<heap, arr, pathCache, cfg, pc, subs, stops, cleanupKind, warnedPaths,
          warnings, hooks, pending, calls, raised>>

engineVars == <<pathCache, cfg, pc, subs, stops, cleanupKind, warnedPaths,
                warnings, hooks, pending, calls, raised>>

----------------------------------------------------------------------------
(* Bounds of the model *)

\* longest array handed to updateArray
MaxLen == 2

\* writes to the source after the engine was started
MaxMutations == 1

\* calls the caller makes of the function it got back
MaxStopCalls == 2

----------------------------------------------------------------------------
(* JavaScript values.  Every value is a record [t, v] with an integer v:   *)
(* a number's value, a boolean's 0/1, a string's index in StrTable, an     *)
(* object's heap address, a function's number.                             *)

Undefined == [t |-> "undefined", v |-> 0]
Null == [t |-> "null", v |-> 0]
Num(n) == [t |-> "number", v |-> n]
Bool(b) == [t |-> "boolean", v |-> IF b THEN 1 ELSE 0]
Str(i) == [t |-> "string", v |-> i]
Ref(a) == [t |-> "ref", v |-> a]
Fn(k) == [t |-> "function", v |-> k]

\* a method inherited from a prototype
NativeFn == Fn(0)
\* (v) => v, the transform validateMapping supplies
DefaultTransform == Fn(1)
\* the functions a caller puts in a descriptor
UserTransform == Fn(2)
UserComparator == Fn(3)

\* const x = e; ... : body applied to the value of e
With(e, body(_)) == body(e)

\* typeof x
TypeOf(x) ==
    CASE x.t = "null" -> "object"
      [] x.t = "ref" -> "object"
      [] OTHER -> x.t

\* x !== null && typeof x === 'object'
IsObject(x) == x.t = "ref"

\* x == null
IsNullish(x) == x.t \in {"null", "undefined"}

\* the decimal numerals of the array indices: String(i) is IdxKey(i)
IndexKeys == <<"0", "1", "2", "3", "4", "5", "6", "7">>

IdxKey(i) == IndexKeys[i + 1]

IsIndexKey(k) == \E i \in 1..Len(IndexKeys) : IndexKeys[i] = k

KeyNum(k) == (CHOOSE i \in 1..Len(IndexKeys) : IndexKeys[i] = k) - 1

\* property names every plain object inherits from Object.prototype
ObjectProtoKeys == {"constructor", "toString"}

\* an array also has its own length and what Array.prototype gives it
ArrayProtoKeys == ObjectProtoKeys \cup {"length", "push"}

----------------------------------------------------------------------------
(* Heap objects: [arr, props].  props is the sequence of the own           *)
(* enumerable properties <<key, value>> in enumeration order (index keys   *)
(* ascending, then the other keys in insertion order).  An array of length *)
(* n has exactly the keys "0" .. "n-1".                                    *)

EmptyObject == [arr |-> FALSE, props |-> <<>>]
EmptyArray == [arr |-> TRUE, props |-> <<>>]

Prop(k, x) == [k |-> k, v |-> x]

\* {k1: v1, ...} and [v1, ...] literals
ObjLit(ps) == [arr |-> FALSE, props |-> ps]
ArrLit(xs) == [arr |-> TRUE, props |-> [i \in 1..Len(xs) |-> Prop(IdxKey(i - 1), xs[i])]]

\* Array.isArray(x)
IsArray(h, x) == IsObject(x) /\ h[x.v].arr

\* Object.keys(x), the order of for-in over a plain object
OwnKeys(h, x) == [i \in 1..Len(h[x.v].props) |-> h[x.v].props[i].k]

\* x.hasOwnProperty(k)
HasOwn(h, x, k) == \E i \in 1..Len(h[x.v].props) : h[x.v].props[i].k = k

\* x.length of an array
Length(h, x) == Len(h[x.v].props)

\* k in x
In(h, x, k) ==
    \/ HasOwn(h, x, k)
    \/ k \in (IF h[x.v].arr THEN ArrayProtoKeys ELSE ObjectProtoKeys)

\* x[k] for an object x
Get(h, x, k) ==
    IF HasOwn(h, x, k)
    THEN h[x.v].props[CHOOSE i \in 1..Len(h[x.v].props) : h[x.v].props[i].k = k].v
    ELSE IF h[x.v].arr /\ k = "length" THEN Num(Length(h, x))
    ELSE IF In(h, x, k) THEN NativeFn
    ELSE Undefined

\* where a new own key goes in the enumeration order
InsertProp(ps, k, x) ==
    IF IsIndexKey(k)
    THEN SelectSeq(ps, LAMBDA p : IsIndexKey(p.k) /\ KeyNum(p.k) < KeyNum(k))
         \o <<Prop(k, x)>>
         \o SelectSeq(ps, LAMBDA p : ~(IsIndexKey(p.k) /\ KeyNum(p.k) < KeyNum(k)))
    ELSE Append(ps, Prop(k, x))

\* x[k] = y
Set(h, x, k, y) ==
    LET o == h[x.v]
    IN  IF HasOwn(h, x, k)
        THEN [h EXCEPT ![x.v].props =
                 [i \in 1..Len(o.props) |->
                     IF o.props[i].k = k THEN Prop(k, y) ELSE o.props[i]]]
        ELSE [h EXCEPT ![x.v].props = InsertProp(o.props, k, y)]

\* delete x[k]
Delete(h, x, k) ==
    [h EXCEPT ![x.v].props = SelectSeq(h[x.v].props, LAMBDA p : p.k # k)]

\* x.push(y)
Push(h, x, y) == Set(h, x, IdxKey(Length(h, x)), y)

\* x.splice(n): drops the elements from index n on
Splice(h, x, n) == [h EXCEPT ![x.v].props = SubSeq(h[x.v].props, 1, n)]

\* a new object: the heap with it, its address is the new length
Alloc(h, o) == Append(h, o)

----------------------------------------------------------------------------
(* Strings.  A string value Str(i) is the i-th entry of StrTable, a        *)
(* sequence of characters; a property key is the TLA+ string of the        *)
(* characters joined.                                                      *)

StrTable ==
    << <<>>,
       <<"a", ".", "b">>,
       <<"m", ".", "x">>,
       <<"s">>,
       <<"a", "[", "0", "]">>,
       <<"t", "o", "S", "t", "r", "i", "n", "g">>,
       <<".">>,
       <<".", ".">>,
       <<"a", ".", ".", "b">>,
       <<".", "a">>,
       <<"a", ".">>,
       <<"a", "[">>,
       <<"a", "[", "x", "]">> >>

EmptyStr == Str(1)
PathAB == Str(2)
PathMissing == Str(3)
SomeStr == Str(4)
PathA0 == Str(5)
PathToString == Str(6)

\* 'a.b', 'm.x', 's', 'a[0]', 'toString'
WellFormedPaths == {PathAB, PathMissing, SomeStr, PathA0, PathToString}

\* '', '.', '..', 'a..b', '.a', 'a.', 'a[', 'a[x]'
MalformedPaths == {EmptyStr} \cup {Str(i) : i \in (PathToString.v + 1)..Len(StrTable)}

Chars(x) == StrTable[x.v]

RECURSIVE Join(_)
Join(cs) == IF cs = <<>> THEN "" ELSE cs[1] \o Join(Tail(cs))

\* the string value whose characters spell key k
StrOfKey(k) == Str(CHOOSE i \in 1..Len(StrTable) : Join(StrTable[i]) = k)

\* !x
Falsy(x) ==
    \/ x.t \in {"undefined", "null"}
    \/ x.t = "number" /\ x.v = 0
    \/ x.t = "boolean" /\ x.v = 0
    \/ x.t = "string" /\ Chars(x) = <<>>

IsDigit(c) == c \in {"0", "1", "2", "3", "4", "5", "6", "7", "8", "9"}

\* the end of the run of digits of s that starts at i (i - 1 when s[i] is none)
RECURSIVE DigitRunEnd(_, _)
DigitRunEnd(s, i) ==
    IF i <= Len(s) /\ IsDigit(s[i]) THEN DigitRunEnd(s, i + 1) ELSE i - 1

\* compilePath had it left the brackets of the path as they are
ReplaceBracketsNone(s, i) == SubSeq(s, i, Len(s))

\* s.replace(/\[(\d+)\]/g, '.$1') from position i on
RECURSIVE ReplaceBrackets(_, _)
ReplaceBrackets(s, i) ==
    IF i > Len(s) THEN <<>>
    ELSE LET j == DigitRunEnd(s, i + 1)
         IN  IF s[i] = "[" /\ j >= i + 1 /\ j + 1 <= Len(s) /\ s[j + 1] = "]"
             THEN <<".">> \o SubSeq(s, i + 1, j) \o ReplaceBrackets(s, j + 2)
             ELSE <<s[i]>> \o ReplaceBrackets(s, i + 1)

\* s.split('.'): the pieces between the dots, cur being the piece under way
RECURSIVE Split(_, _, _)
Split(s, i, cur) ==
    IF i > Len(s) THEN <<cur>>
    ELSE IF s[i] = "." THEN <<cur>> \o Split(s, i + 1, <<>>)
    ELSE Split(s, i + 1, Append(cur, s[i]))

\* path.replace(...).split('.').filter(Boolean), as property keys
Segments(path) ==
    LET pieces == SelectSeq(Split(ReplaceBrackets(Chars(path), 1), 1, <<>>),
                            LAMBDA g : g # <<>>)
    IN  [i \in 1..Len(pieces) |-> Join(pieces[i])]

----------------------------------------------------------------------------
(* compilePath, getByPath, checkPathExists.  pathCache maps a raw path     *)
(* string (its index in StrTable) to the compiled accessor, a closure:     *)
(* [id, segments], id telling one closure from another and segments being  *)
(* what it holds.  The closures are numbered as they are made.             *)

\* the accessor fn of compilePath applied to obj, from segment i on
RECURSIVE Accessor(_, _, _, _)
Accessor(h, segments, current, i) ==
    IF i > Len(segments) THEN current
    ELSE IF IsNullish(current) \/ TypeOf(current) # "object" THEN Undefined
    ELSE Accessor(h, segments, Get(h, current, segments[i]), i + 1)

\* compilePath had it no look into pathCache
compilePathAfresh(cache, path) ==
    LET fn == [id |-> Cardinality(DOMAIN cache) + 1, segments |-> Segments(path)]
    IN  [cache |-> [p \in DOMAIN cache \cup {path.v} |->
                       IF p = path.v THEN fn ELSE cache[p]],
         fn |-> fn]

\* compilePath(path): [cache, fn]
compilePath(cache, path) ==
    IF path.v \in DOMAIN cache
    THEN [cache |-> cache, fn |-> cache[path.v]]
    ELSE LET fn == [id |-> Cardinality(DOMAIN cache) + 1, segments |-> Segments(path)]
         IN  [cache |-> [p \in DOMAIN cache \cup {path.v} |->
                            IF p = path.v THEN fn ELSE cache[p]],
              fn |-> fn]

\* getByPath(obj, path): [cache, v]
getByPath(cache, h, obj, path) ==
    IF Falsy(obj) \/ Falsy(path) \/ TypeOf(path) # "string"
    THEN [cache |-> cache, v |-> Undefined]
    ELSE LET c == compilePath(cache, path)
         IN  [cache |-> c.cache, v |-> Accessor(h, c.fn.segments, obj, 1)]

\* the loop of checkPathExists from segment i on
RECURSIVE checkPathExistsWalk(_, _, _, _)
checkPathExistsWalk(h, segments, current, i) ==
    IF i > Len(segments) THEN TRUE
    ELSE IF IsNullish(current) \/ TypeOf(current) # "object" THEN FALSE
    ELSE IF ~In(h, current, segments[i]) THEN FALSE
    ELSE checkPathExistsWalk(h, segments, Get(h, current, segments[i]), i + 1)

\* checkPathExists(obj, path)
checkPathExists(h, obj, path) ==
    IF Falsy(obj) \/ Falsy(path) \/ TypeOf(path) # "string" THEN FALSE
    ELSE checkPathExistsWalk(h, Segments(path), obj, 1)

----------------------------------------------------------------------------
(* deepCopy *)

RECURSIVE deepCopy(_, _, _)
RECURSIVE deepCopyProps(_, _, _, _, _)

\* the loops of deepCopy: copy[key] = deepCopy(value[key], seen) for the
\* own keys of value from position i on; returns [h, seen]
deepCopyProps(h, seen, value, copy, i) ==
    IF i > Len(h[value.v].props) THEN [h |-> h, seen |-> seen]
    ELSE LET p == h[value.v].props[i]
             c == deepCopy(h, p.v, seen)
         IN  deepCopyProps(Set(c.h, copy, p.k, c.v), c.seen, value, copy, i + 1)

\* deepCopy(value, seen): [h, seen, v]; seen maps a copied address to its copy
deepCopy(h, value, seen) ==
    IF ~IsObject(value) THEN [h |-> h, seen |-> seen, v |-> value]
    ELSE IF value.v \in DOMAIN seen
    THEN [h |-> h, seen |-> seen, v |-> Ref(seen[value.v])]
    ELSE LET h1 == Alloc(h, IF h[value.v].arr THEN EmptyArray ELSE EmptyObject)
             copy == Ref(Len(h1))
             seen1 == [a \in DOMAIN seen \cup {value.v} |->
                          IF a = value.v THEN copy.v ELSE seen[a]]
             r == deepCopyProps(h1, seen1, value, copy, 1)
         IN  [h |-> r.h, seen |-> r.seen, v |-> copy]

\* a seen map with no entry: new WeakMap()
NoSeen == [a \in {} |-> 0]

----------------------------------------------------------------------------
(* isDeepEqual.  Its result is "true", "false" or "overflow": the call     *)
(* recurses without end when it meets again a pair (a, b) whose comparison *)
(* is still running (the cache gets a pair only when its comparison has    *)
(* returned), and the JavaScript engine then raises RangeError.            *)

RECURSIVE isDeepEqual(_, _, _, _, _)
RECURSIVE isDeepEqualKeys(_, _, _, _, _, _, _)

\* the two loops of isDeepEqual over keys[i..]: the index loop over an array
\* a, or the for-of over keysA with its (key in b) test; [r, cache]
isDeepEqualKeys(h, a, b, keys, i, cache, stack) ==
    IF i > Len(keys) THEN [r |-> "true", cache |-> cache]
    ELSE IF ~h[a.v].arr /\ ~In(h, b, keys[i]) THEN [r |-> "false", cache |-> cache]
    ELSE LET e == isDeepEqual(h, Get(h, a, keys[i]), Get(h, b, keys[i]), cache, stack)
         IN  IF e.r # "true" THEN e
             ELSE isDeepEqualKeys(h, a, b, keys, i + 1, e.cache, stack)

\* isDeepEqual(a, b, cache): [r, cache]; cache is a set of <<a, b, result>>,
\* stack the pairs whose comparison is running
isDeepEqual(h, a, b, cache, stack) ==
    IF a = b THEN [r |-> "true", cache |-> cache]
    ELSE IF TypeOf(a) # TypeOf(b) THEN [r |-> "false", cache |-> cache]
    ELSE IF IsNullish(a) \/ IsNullish(b) THEN [r |-> "false", cache |-> cache]
    ELSE IF TypeOf(a) # "object" THEN [r |-> "false", cache |-> cache]
    ELSE IF \E c \in cache : c[1] = a.v /\ c[2] = b.v
    THEN [r |-> (CHOOSE c \in cache : c[1] = a.v /\ c[2] = b.v)[3], cache |-> cache]
    ELSE IF <<a.v, b.v>> \in stack THEN [r |-> "overflow", cache |-> cache]
    ELSE LET res ==
                 IF h[a.v].arr
                 THEN IF ~IsArray(h, b) \/ Length(h, a) # Length(h, b)
                      THEN [r |-> "false", cache |-> cache]
                      ELSE isDeepEqualKeys(h, a, b, OwnKeys(h, a), 1, cache,
                                           stack \cup {<<a.v, b.v>>})
                 ELSE IF Len(OwnKeys(h, a)) # Len(OwnKeys(h, b))
                      THEN [r |-> "false", cache |-> cache]
                      ELSE isDeepEqualKeys(h, a, b, OwnKeys(h, a), 1, cache,
                                           stack \cup {<<a.v, b.v>>})
         IN  IF res.r = "overflow" THEN res
             ELSE [r |-> res.r, cache |-> res.cache \cup {<<a.v, b.v, res.r>>}]

\* isDeepEqual(a, b) with its default, fresh cache
DeepEqual(h, a, b) == isDeepEqual(h, a, b, {}, {}).r

----------------------------------------------------------------------------
(* updateArray *)

RECURSIVE updateArrayMerge(_, _, _, _, _)
RECURSIVE updateArrayPrune(_, _, _, _, _)
RECURSIVE updateArrayOverlap(_, _, _, _, _)
RECURSIVE updateArrayGrow(_, _, _, _, _)

\* { ...item }: a new plain object with item's own properties
Spread(h, item) == Alloc(h, ObjLit(h[item.v].props))

\* for (const key in newItem) if (newItem.hasOwnProperty(key))
\*     targetItem[key] = newItem[key]
updateArrayMerge(h, targetItem, newItem, keys, i) ==
    IF i > Len(keys) THEN h
    ELSE updateArrayMerge(
             IF HasOwn(h, newItem, keys[i])
             THEN Set(h, targetItem, keys[i], Get(h, newItem, keys[i]))
             ELSE h,
             targetItem, newItem, keys, i + 1)

\* for (const key in targetItem)
\*     if (targetItem.hasOwnProperty(key) && !(key in newItem)) delete targetItem[key]
updateArrayPrune(h, targetItem, newItem, keys, i) ==
    IF i > Len(keys) THEN h
    ELSE updateArrayPrune(
             IF HasOwn(h, targetItem, keys[i]) /\ ~In(h, newItem, keys[i])
             THEN Delete(h, targetItem, keys[i])
             ELSE h,
             targetItem, newItem, keys, i + 1)

\* one turn of the loop over the overlap, for index i
updateArraySlot(h, targetArray, newArray, i) ==
    LET newItem == Get(h, newArray, IdxKey(i))
        targetItem == Get(h, targetArray, IdxKey(i))
    IN  IF newItem.t = "null" \/ TypeOf(newItem) # "object" \/ IsArray(h, newItem)
        THEN IF targetItem # newItem
             THEN Set(h, targetArray, IdxKey(i), newItem)
             ELSE h
        ELSE IF IsObject(targetItem) /\ ~IsArray(h, targetItem)
        THEN LET h1 == updateArrayMerge(h, targetItem, newItem, OwnKeys(h, newItem), 1)
             IN  updateArrayPrune(h1, targetItem, newItem, OwnKeys(h1, targetItem), 1)
        ELSE LET h1 == Spread(h, newItem)
             IN  Set(h1, targetArray, IdxKey(i), Ref(Len(h1)))

\* for (let i = 0; i < minLength; i++)
updateArrayOverlap(h, targetArray, newArray, i, minLength) ==
    IF i >= minLength THEN h
    ELSE updateArrayOverlap(updateArraySlot(h, targetArray, newArray, i),
                            targetArray, newArray, i + 1, minLength)

\* for (let i = oldLength; i < newLength; i++) targetArray.push(...)
updateArrayGrow(h, targetArray, newArray, i, newLength) ==
    IF i >= newLength THEN h
    ELSE LET item == Get(h, newArray, IdxKey(i))
             h1 == IF IsObject(item) /\ ~IsArray(h, item)
                   THEN LET h2 == Spread(h, item) IN Push(h2, targetArray, Ref(Len(h2)))
                   ELSE Push(h, targetArray, item)
         IN  updateArrayGrow(h1, targetArray, newArray, i + 1, newLength)

\* updateArray(targetArray, newArray): the heap after the call
updateArray(h, targetArray, newArray) ==
    IF ~IsArray(h, newArray) \/ ~IsArray(h, targetArray) THEN h
    ELSE LET oldLength == Length(h, targetArray)
             newLength == Length(h, newArray)
             minLength == IF oldLength < newLength THEN oldLength ELSE newLength
             h1 == updateArrayOverlap(h, targetArray, newArray, 0, minLength)
         IN  IF newLength > oldLength
             THEN updateArrayGrow(h1, targetArray, newArray, oldLength, newLength)
             ELSE IF newLength < oldLength
             THEN Splice(h1, targetArray, newLength)
             ELSE h1

----------------------------------------------------------------------------
(* What a call of a caller's function does: it returns a value, returns    *)
(* its argument ("echo"), or throws.  "none" stands where no caller's      *)
(* function was called.                                                    *)

Ret(x) == [k |-> "ret", v |-> x]
Echo == [k |-> "echo", v |-> Undefined]
Throw == [k |-> "throw", v |-> Undefined]
NoCall == [k |-> "none", v |-> Undefined]

ComparatorOutcomes ==
    {Ret(Bool(TRUE)), Ret(Bool(FALSE)), Ret(Num(0)), Ret(Null), Ret(Undefined),
     Ret(SomeStr), Throw}

TransformOutcomes == {Echo, Ret(Undefined), Ret(Num(7)), Throw}

\* the setter of a target's value: it stores, or throws (a guarded ref)
SetterOutcomes == {Ret(Undefined), Throw}

----------------------------------------------------------------------------
(* validateMapping *)

\* Boolean(x)
ToBoolean(x) == Bool(~Falsy(x))

\* the object validateMapping returns
ValidatedItem(h, item) ==
    [path |-> Get(h, item, "path"),
     target |-> Get(h, item, "target"),
     transform |-> IF TypeOf(Get(h, item, "transform")) = "function"
                   THEN Get(h, item, "transform") ELSE DefaultTransform,
     comparator |-> IF TypeOf(Get(h, item, "comparator")) = "function"
                    THEN Get(h, item, "comparator") ELSE Null,
     deep |-> IF Get(h, item, "deep") # Undefined
              THEN ToBoolean(Get(h, item, "deep")) ELSE Undefined,
     copyData |-> IF Get(h, item, "copyData") # Undefined
                  THEN ToBoolean(Get(h, item, "copyData")) ELSE Bool(TRUE)]

\* validateMapping without the test of item.path
validateMappingAnyPath(h, item, index) ==
    IF Falsy(item) \/ TypeOf(item) # "object"
    THEN [ok |-> FALSE, item |-> Undefined]
    ELSE IF \/ Falsy(Get(h, item, "target"))
            \/ TypeOf(Get(h, item, "target")) # "object"
            \/ ~In(h, Get(h, item, "target"), "value")
    THEN [ok |-> FALSE, item |-> Undefined]
    ELSE [ok |-> TRUE, item |-> ValidatedItem(h, item)]

\* validateMapping(item, index): [ok, item]; ok FALSE when it throws
validateMapping(h, item, index) ==
    IF Falsy(item) \/ TypeOf(item) # "object"
    THEN [ok |-> FALSE, item |-> Undefined]
    ELSE IF Falsy(Get(h, item, "path")) \/ TypeOf(Get(h, item, "path")) # "string"
    THEN [ok |-> FALSE, item |-> Undefined]
    ELSE IF \/ Falsy(Get(h, item, "target"))
            \/ TypeOf(Get(h, item, "target")) # "object"
            \/ ~In(h, Get(h, item, "target"), "value")
    THEN [ok |-> FALSE, item |-> Undefined]
    ELSE [ok |-> TRUE, item |-> ValidatedItem(h, item)]

----------------------------------------------------------------------------
(* createWatcherHandler: the handler it returns, applied to                *)
(* (sourceValue, oldSourceValue).  beh = [cmp, tr, set] is what the        *)
(* caller's comparator, transform and the target's setter do when called.  *)
(* The result is [h, out, cmp, cn, co, tr, final]: the heap, how the       *)
(* handler ended, and what it handed to and got from the caller's          *)
(* functions.  out is one of                                               *)
(*   "raised"      an exception left the handler                           *)
(*   "same"        source value unchanged, returned at step one            *)
(*   "suppressed"  the comparator returned false                           *)
(*   "equal"       the target already holds the final value                *)
(*   "reconciled"  updateArray was applied to the target's array           *)
(*   "assigned"    target.value was assigned                               *)
(*   "writefail"   step four threw and the catch swallowed it              *)

\* a === b, or isDeepEqual(a, b): "true", "false" or "overflow"
HandlerEqual(h, useDeep, a, b) ==
    IF useDeep THEN DeepEqual(h, a, b)
    ELSE IF a = b THEN "true" ELSE "false"

\* copyData && x !== null && typeof x === 'object' ? deepCopy(x) : x; [h, v]
CopyIfData(h, copyData, x) ==
    IF copyData = Bool(TRUE) /\ IsObject(x)
    THEN With(deepCopy(h, x, NoSeen), LAMBDA c : [h |-> c.h, v |-> c.v])
    ELSE [h |-> h, v |-> x]

\* the comparator stage had it tested  if (!comparatorResult) return
HandlerComparatorFalsy(h, item, sourceValue, oldSourceValue, beh) ==
    IF Falsy(item.comparator)
    THEN [h |-> h, stop |-> FALSE, cmp |-> NoCall, cn |-> Undefined, co |-> Undefined]
    ELSE With(CopyIfData(h, item.copyData, sourceValue), LAMBDA n :
         With(CopyIfData(n.h, item.copyData, oldSourceValue), LAMBDA o :
             [h |-> o.h,
              stop |-> beh.cmp.k = "ret" /\ Falsy(beh.cmp.v),
              cmp |-> beh.cmp, cn |-> n.v, co |-> o.v]))

\* step two, the comparator: [h, stop, cmp, cn, co]
HandlerComparator(h, item, sourceValue, oldSourceValue, beh) ==
    IF Falsy(item.comparator)
    THEN [h |-> h, stop |-> FALSE, cmp |-> NoCall, cn |-> Undefined, co |-> Undefined]
    ELSE With(CopyIfData(h, item.copyData, sourceValue), LAMBDA n :
         With(CopyIfData(n.h, item.copyData, oldSourceValue), LAMBDA o :
             [h |-> o.h,
              stop |-> beh.cmp.k = "ret" /\ TypeOf(beh.cmp.v) = "boolean"
                       /\ Falsy(beh.cmp.v),
              cmp |-> beh.cmp, cn |-> n.v, co |-> o.v]))

\* what transform(input) does
CallTransform(item, input, beh) ==
    IF item.transform = DefaultTransform THEN Ret(input)
    ELSE IF beh.tr = Echo THEN Ret(input)
    ELSE beh.tr

\* the transform stage had its catch set  finalValue = transformInput
HandlerTransformKeepsInput(h, item, sourceValue, beh) ==
    With(CopyIfData(h, item.copyData, sourceValue), LAMBDA input :
    With(CallTransform(item, input.v, beh), LAMBDA called :
    With(IF item.transform = DefaultTransform THEN NoCall ELSE beh.tr, LAMBDA tr :
        IF called.k = "throw" \/ TypeOf(called.v) = "undefined"
        THEN [h |-> input.h, tr |-> tr, final |-> input.v]
        ELSE With(CopyIfData(input.h, item.copyData, called.v), LAMBDA c :
                 [h |-> c.h, tr |-> tr, final |-> c.v]))))

\* step three had it taken an undefined result as the final value
HandlerTransformKeepsUndefined(h, item, sourceValue, beh) ==
    With(CopyIfData(h, item.copyData, sourceValue), LAMBDA input :
    With(CallTransform(item, input.v, beh), LAMBDA called :
    With(IF item.transform = DefaultTransform THEN NoCall ELSE beh.tr, LAMBDA tr :
        IF called.k = "throw"
        THEN [h |-> input.h, tr |-> tr, final |-> sourceValue]
        ELSE With(CopyIfData(input.h, item.copyData, called.v), LAMBDA c :
                 [h |-> c.h, tr |-> tr, final |-> c.v]))))

\* step three, the transform: [h, tr, final]
HandlerTransform(h, item, sourceValue, beh) ==
    With(CopyIfData(h, item.copyData, sourceValue), LAMBDA input :
    With(CallTransform(item, input.v, beh), LAMBDA called :
    With(IF item.transform = DefaultTransform THEN NoCall ELSE beh.tr, LAMBDA tr :
        IF called.k = "throw"
        THEN [h |-> input.h, tr |-> tr, final |-> sourceValue]
        ELSE IF TypeOf(called.v) = "undefined"
        THEN [h |-> input.h, tr |-> tr, final |-> input.v]
        ELSE With(CopyIfData(input.h, item.copyData, called.v), LAMBDA c :
                 [h |-> c.h, tr |-> tr, final |-> c.v]))))

\* step four had it compared by reference in either mode
HandlerWriteShallow(h, item, useDeep, finalValue, beh) ==
    With(Get(h, item.target, "value"), LAMBDA currentTargetValue :
    With(HandlerEqual(h, FALSE, currentTargetValue, finalValue), LAMBDA same :
        IF same = "true" THEN [h |-> h, out |-> "equal", set |-> NoCall]
        ELSE IF IsArray(h, finalValue) /\ IsArray(h, currentTargetValue)
        THEN [h |-> updateArray(h, currentTargetValue, finalValue),
              out |-> "reconciled", set |-> NoCall]
        ELSE IF beh.set = Throw
        THEN [h |-> h, out |-> "writefail", set |-> beh.set]
        ELSE [h |-> Set(h, item.target, "value", finalValue),
              out |-> "assigned", set |-> beh.set]))

\* step four had it assigned target.value for arrays too
HandlerWriteAssigns(h, item, useDeep, finalValue, beh) ==
    With(Get(h, item.target, "value"), LAMBDA currentTargetValue :
    With(HandlerEqual(h, useDeep, currentTargetValue, finalValue), LAMBDA same :
        IF same = "overflow" THEN [h |-> h, out |-> "writefail", set |-> NoCall]
        ELSE IF same = "true" THEN [h |-> h, out |-> "equal", set |-> NoCall]
        ELSE IF beh.set = Throw
        THEN [h |-> h, out |-> "writefail", set |-> beh.set]
        ELSE [h |-> Set(h, item.target, "value", finalValue),
              out |-> "assigned", set |-> beh.set]))

\* step four, the write: [h, out, set]
HandlerWrite(h, item, useDeep, finalValue, beh) ==
    With(Get(h, item.target, "value"), LAMBDA currentTargetValue :
    With(HandlerEqual(h, useDeep, currentTargetValue, finalValue), LAMBDA same :
        IF same = "overflow" THEN [h |-> h, out |-> "writefail", set |-> NoCall]
        ELSE IF same = "true" THEN [h |-> h, out |-> "equal", set |-> NoCall]
        ELSE IF IsArray(h, finalValue) /\ IsArray(h, currentTargetValue)
        THEN [h |-> updateArray(h, currentTargetValue, finalValue),
              out |-> "reconciled", set |-> NoCall]
        ELSE IF beh.set = Throw
        THEN [h |-> h, out |-> "writefail", set |-> beh.set]
        ELSE [h |-> Set(h, item.target, "value", finalValue),
              out |-> "assigned", set |-> beh.set]))

HandlerResult(h, out, c, t, w) ==
    [h |-> h, out |-> out, cmp |-> c.cmp, cn |-> c.cn, co |-> c.co,
     tr |-> t.tr, final |-> t.final, set |-> w.set]

NoComparator == [cmp |-> NoCall, cn |-> Undefined, co |-> Undefined]
NoTransform == [tr |-> NoCall, final |-> Undefined]
NoWrite == [set |-> NoCall]

createWatcherHandler(h, item, globalDeep, sourceValue, oldSourceValue, beh) ==
    With(IF item.deep # Undefined THEN item.deep = Bool(TRUE) ELSE globalDeep,
         LAMBDA useDeep :
    With(HandlerEqual(h, useDeep, sourceValue, oldSourceValue), LAMBDA isSame :
        IF isSame = "overflow"
        THEN HandlerResult(h, "raised", NoComparator, NoTransform, NoWrite)
        ELSE IF isSame = "true"
        THEN HandlerResult(h, "same", NoComparator, NoTransform, NoWrite)
        ELSE With(HandlerComparator(h, item, sourceValue, oldSourceValue, beh), LAMBDA c :
                 IF c.stop
                 THEN HandlerResult(c.h, "suppressed", c, NoTransform, NoWrite)
                 ELSE With(HandlerTransform(c.h, item, sourceValue, beh), LAMBDA t :
                      With(HandlerWrite(t.h, item, useDeep, t.final, beh), LAMBDA w :
                           HandlerResult(w.h, w.out, c, t, w))))))

----------------------------------------------------------------------------
(* The engine.  Its operators carry the record                             *)
(*   E = [h, cache, subs, warned, warnings]                                *)
(* (heap, pathCache, watches, warnedPaths, console.warn calls).            *)
(* A watch is [item, index, old, active, disposals, disposerThrew, last,   *)
(* writes, everRaised]: the validated mapping, its index in mapsArray, the *)
(* value the host keeps as oldValue, whether the host still runs it, how   *)
(* often its disposer was called and whether a call of it threw, the last  *)
(* run of its handler, how many runs wrote to the target, and whether a    *)
(* run ever raised.                                                        *)

\* a destructuring default: const { x = d } = options
OptionOr(x, d) == IF x = Undefined THEN d ELSE x

NoRun ==
    [out |-> "none", cmp |-> NoCall, cn |-> Undefined, co |-> Undefined,
     tr |-> NoCall, final |-> Undefined, set |-> NoCall,
     sv |-> Undefined, ov |-> Undefined]

\* the getter had it not looked into warnedPaths
watchGetterWarnsAgain(E, item, debug, source) ==
    With(source, LAMBDA src :
    With(getByPath(E.cache, E.h, src, item.path), LAMBDA g :
    With(/\ ~Falsy(debug) /\ ~IsNullish(src) /\ g.v = Undefined
         /\ ~checkPathExists(E.h, src, item.path), LAMBDA warn :
        [E |-> [E EXCEPT !.cache = g.cache,
                         !.warned = IF warn THEN @ \cup {item.path.v} ELSE @,
                         !.warnings = IF warn THEN Append(@, item.path.v) ELSE @],
         v |-> g.v])))

\* the getter handed to watch: [E, v]
watchGetter(E, item, debug, source) ==
    With(source, LAMBDA src :
    With(getByPath(E.cache, E.h, src, item.path), LAMBDA g :
    With(/\ ~Falsy(debug) /\ ~IsNullish(src) /\ g.v = Undefined
         /\ item.path.v \notin E.warned
         /\ ~checkPathExists(E.h, src, item.path), LAMBDA warn :
        [E |-> [E EXCEPT !.cache = g.cache,
                         !.warned = IF warn THEN @ \cup {item.path.v} ELSE @,
                         !.warnings = IF warn THEN Append(@, item.path.v) ELSE @],
         v |-> g.v])))

\* the host calls the watch callback with (newValue, oldValue): the watch after it
runHandler(h, w, globalDeep, newValue, oldValue, beh) ==
    With(createWatcherHandler(h, w.item, globalDeep, newValue, oldValue, beh), LAMBDA r :
        [h |-> r.h,
         w |-> [w EXCEPT
                  !.old = newValue,
                  !.last = [out |-> r.out, cmp |-> r.cmp, cn |-> r.cn, co |-> r.co,
                            tr |-> r.tr, final |-> r.final, set |-> r.set,
                            sv |-> newValue, ov |-> oldValue],
                  !.writes = IF r.out \in {"assigned", "reconciled"} THEN @ + 1 ELSE @,
                  !.everRaised = @ \/ r.out = "raised"]])

\* watch(getter, watcherHandler, { immediate, deep: false }): the host runs
\* the getter once and, with immediate, the callback with (value, undefined)
\* watch had the host handed the callback the value itself as the old one
watchInitialOldIsValue(E, item, index, globalDeep, debug, immediate, source, beh) ==
    With(watchGetter(E, item, debug, source), LAMBDA g :
    With([item |-> item, index |-> index, old |-> g.v, active |-> TRUE,
          disposals |-> 0, disposerThrew |-> FALSE, last |-> NoRun,
          writes |-> 0, everRaised |-> FALSE], LAMBDA w0 :
    With(IF ~Falsy(immediate)
         THEN runHandler(g.E.h, w0, globalDeep, g.v, g.v, beh)
         ELSE [h |-> g.E.h, w |-> w0], LAMBDA r :
        [g.E EXCEPT !.h = r.h, !.subs = Append(@, r.w)])))

watch(E, item, index, globalDeep, debug, immediate, source, beh) ==
    With(watchGetter(E, item, debug, source), LAMBDA g :
    With([item |-> item, index |-> index, old |-> g.v, active |-> TRUE,
          disposals |-> 0, disposerThrew |-> FALSE, last |-> NoRun,
          writes |-> 0, everRaised |-> FALSE], LAMBDA w0 :
    With(IF ~Falsy(immediate)
         THEN runHandler(g.E.h, w0, globalDeep, g.v, Undefined, beh)
         ELSE [h |-> g.E.h, w |-> w0], LAMBDA r :
        [g.E EXCEPT !.h = r.h, !.subs = Append(@, r.w)])))

\* the job the host runs for watch i when its source was written: the getter
\* again and, when the value is another (Object.is), the callback
watchJob(E, i, globalDeep, debug, source, beh) ==
    IF ~E.subs[i].active THEN E
    ELSE With(watchGetter(E, E.subs[i].item, debug, source), LAMBDA g :
             IF g.v = E.subs[i].old THEN g.E
             ELSE With(runHandler(g.E.h, E.subs[i], globalDeep, g.v, E.subs[i].old, beh),
                       LAMBDA r : [g.E EXCEPT !.h = r.h, !.subs[i] = r.w]))

\* the host flushes its queue: the jobs of the watches in creation order
RECURSIVE flushJobs(_, _, _, _, _, _)
flushJobs(E, i, globalDeep, debug, source, behs) ==
    IF i > Len(E.subs) THEN E
    ELSE flushJobs(watchJob(E, i, globalDeep, debug, source, behs[i]),
                   i + 1, globalDeep, debug, source, behs)

\* Object.entries(mappings).map(([path, target]) => ({ path, target })): [h, items]
RECURSIVE entriesToItems(_, _, _)
entriesToItems(h, mappings, i) ==
    IF i > Len(h[mappings.v].props) THEN [h |-> h, items |-> <<>>]
    ELSE With(h[mappings.v].props[i], LAMBDA p :
         With(Alloc(h, ObjLit(<<Prop("path", StrOfKey(p.k)), Prop("target", p.v)>>)),
              LAMBDA h1 :
         With(entriesToItems(h1, mappings, i + 1), LAMBDA rest :
             [h |-> rest.h, items |-> <<Ref(Len(h1))>> \o rest.items])))

\* mapsArray: [h, items, threw]
mapsArrayOf(h, mappings) ==
    IF IsArray(h, mappings)
    THEN [h |-> h, threw |-> FALSE,
          items |-> [i \in 1..Length(h, mappings) |-> Get(h, mappings, IdxKey(i - 1))]]
    ELSE IF IsNullish(mappings)
    THEN [h |-> h, threw |-> TRUE, items |-> <<>>]
    ELSE IF IsObject(mappings)
    THEN With(entriesToItems(h, mappings, 1), LAMBDA e :
             [h |-> e.h, threw |-> FALSE, items |-> e.items])
    ELSE [h |-> h, threw |-> FALSE, items |-> <<>>]

\* the registration loop of PropertySyncer from item i on: [E, stops]
RECURSIVE registerMappings(_, _, _, _, _, _, _, _, _)
registerMappings(E, st, items, i, globalDeep, debug, immediate, source, behs) ==
    IF i > Len(items) THEN [E |-> E, stops |-> st]
    ELSE With(validateMapping(E.h, items[i], i - 1), LAMBDA v :
             IF ~v.ok
             THEN registerMappings(E, st, items, i + 1, globalDeep, debug,
                                   immediate, source, behs)
             ELSE With(watch(E, v.item, i - 1, ~Falsy(globalDeep), debug,
                             immediate, source, behs[i]), LAMBDA E1 :
                      registerMappings(E1, Append(st, Len(E1.subs)), items, i + 1,
                                       globalDeep, debug, immediate, source, behs)))

\* PropertySyncer(source, mappings, options): [E, kind, stops, threw]; kind
\* is the cleanup function it returns: "noop" is () => { }.  mappings
\* undefined takes the default {}, which has no entries
PropertySyncer(E, source, mappings, options, behs) ==
    LET immediate == OptionOr(options.immediate, Bool(TRUE))
        deep == OptionOr(options.deep, Bool(FALSE))
        debug == OptionOr(options.debug, Bool(FALSE))
    IN  IF mappings = Undefined
        THEN [E |-> E, kind |-> "noop", stops |-> <<>>, threw |-> FALSE]
        ELSE With(mapsArrayOf(E.h, mappings), LAMBDA m :
            IF m.threw
            THEN [E |-> E, kind |-> "none", stops |-> <<>>, threw |-> TRUE]
            ELSE IF Len(m.items) = 0
            THEN [E |-> [E EXCEPT !.h = m.h], kind |-> "noop", stops |-> <<>>,
                  threw |-> FALSE]
            ELSE With(registerMappings([E EXCEPT !.h = m.h, !.warned = {}], <<>>,
                                       m.items, 1, deep, debug, immediate, source, behs),
                      LAMBDA r :
                     [E |-> r.E, kind |-> "stops", stops |-> r.stops, threw |-> FALSE]))

\* stop(), the disposer the host returned for watch k: the host stops the
\* watch; out is how the call then ends: [E, threw]
callDisposer(E, k, out) ==
    [E |-> [E EXCEPT !.subs[k].active = FALSE, !.subs[k].disposals = @ + 1,
                     !.subs[k].disposerThrew = @ \/ out = Throw],
     threw |-> out = Throw]

\* the loop of the cleanup function over stops[i..]; outs[k] is what the
\* disposer of watch k does after it stopped the watch: [E, threw]
\* (try { stop() } catch { }: the loop goes on whether or not d.threw)
RECURSIVE cleanupLoop(_, _, _, _)
cleanupLoop(E, st, i, outs) ==
    IF i > Len(st) THEN [E |-> E, threw |-> FALSE]
    ELSE With(callDisposer(E, st[i], outs[st[i]]), LAMBDA d :
             cleanupLoop(d.E, st, i + 1, outs))

\* the cleanup function had it only emptied stops, calling no disposer
cleanupSkipsDisposers(E, kind, st, outs) ==
    IF kind # "stops" THEN [E |-> E, stops |-> st, threw |-> FALSE]
    ELSE [E |-> [E EXCEPT !.warned = {}], stops |-> <<>>, threw |-> FALSE]

\* the cleanup function without  stops.length = 0
cleanupKeepsStops(E, kind, st, outs) ==
    IF kind # "stops" THEN [E |-> E, stops |-> st, threw |-> FALSE]
    ELSE With(cleanupLoop(E, st, 1, outs), LAMBDA r :
             [E |-> [r.E EXCEPT !.warned = {}], stops |-> st, threw |-> r.threw])

\* the cleanup function PropertySyncer returns: [E, stops, threw]
cleanup(E, kind, st, outs) ==
    IF kind # "stops" THEN [E |-> E, stops |-> st, threw |-> FALSE]
    ELSE With(cleanupLoop(E, st, 1, outs), LAMBDA r :
             [E |-> [r.E EXCEPT !.warned = {}], stops |-> <<>>, threw |-> r.threw])

\* usePropertySyncBlock had it no try around getMappings() and PropertySyncer
usePropertySyncBlockNoTry(E, source, gm, options, behs) ==
    With([immediate |-> OptionOr(options.immediate, Bool(TRUE)),
          deep |-> OptionOr(options.deep, Bool(FALSE)),
          debug |-> OptionOr(options.debug, Bool(FALSE))], LAMBDA opts :
        IF gm.k = "throw"
        THEN [E |-> E, kind |-> "none", stops |-> <<>>, hooks |-> 0, threw |-> TRUE]
        ELSE With(PropertySyncer(E, source, gm.v, opts, behs), LAMBDA r :
                 [E |-> r.E, kind |-> r.kind, stops |-> r.stops,
                  hooks |-> IF r.threw THEN 0 ELSE 1, threw |-> r.threw]))

\* usePropertySyncBlock(source, getMappings, options): [E, kind, stops, hooks, threw];
\* gm is what getMappings() does
usePropertySyncBlock(E, source, gm, options, behs) ==
    With([immediate |-> OptionOr(options.immediate, Bool(TRUE)),
          deep |-> OptionOr(options.deep, Bool(FALSE)),
          debug |-> OptionOr(options.debug, Bool(FALSE))], LAMBDA opts :
        IF gm.k = "throw"
        THEN [E |-> E, kind |-> "noop", stops |-> <<>>, hooks |-> 0, threw |-> FALSE]
        ELSE With(PropertySyncer(E, source, gm.v, opts, behs), LAMBDA r :
                 IF r.threw
                 THEN [E |-> E, kind |-> "noop", stops |-> <<>>, hooks |-> 0,
                       threw |-> FALSE]
                 ELSE [E |-> r.E, kind |-> r.kind, stops |-> r.stops, hooks |-> 1,
                       threw |-> FALSE]))

----------------------------------------------------------------------------
(* What the caller hands to the engine.  The heap starts with              *)
(*   1  the source { a: <2> }        2  { b: <the value at path a.b> }     *)
(*   3  a ref, value 0               4  a ref whose setter may throw       *)
(*   5  an object with no value slot                                       *)
(* followed by the mapping descriptors and the mappings container.         *)

SourceRoot == Ref(1)
SourceInner == Ref(2)
Cell1 == Ref(3)
Cell2 == Ref(4)
Bare == Ref(5)

BaseHeap ==
    << ObjLit(<<Prop("a", SourceInner)>>),
       ObjLit(<<Prop("b", Undefined)>>),
       ObjLit(<<Prop("value", Num(0))>>),
       ObjLit(<<Prop("value", Num(0))>>),
       ObjLit(<<Prop("x", Num(0))>>) >>

\* the refs whose setter may throw
Guarded == {Cell2.v}

\* a descriptor that is an object literal, and one that is no object
Desc(ps) == [lit |-> TRUE, v |-> Undefined, props |-> ps]
NonObj(x) == [lit |-> FALSE, v |-> x, props |-> <<>>]

InvalidDescs ==
    { NonObj(Null),
      NonObj(Num(5)),
      Desc(<<Prop("target", Cell1)>>),
      Desc(<<Prop("path", Num(3)), Prop("target", Cell1)>>),
      Desc(<<Prop("path", EmptyStr), Prop("target", Cell1)>>),
      Desc(<<Prop("path", PathAB)>>),
      Desc(<<Prop("path", PathAB), Prop("target", Num(1))>>),
      Desc(<<Prop("path", PathAB), Prop("target", Bare)>>) }

PlainDesc == Desc(<<Prop("path", PathAB), Prop("target", Cell1)>>)

ComparatorDesc ==
    Desc(<<Prop("path", PathAB), Prop("target", Cell1),
           Prop("comparator", UserComparator)>>)

TransformDesc ==
    Desc(<<Prop("path", PathAB), Prop("target", Cell1),
           Prop("transform", UserTransform)>>)

GuardedDesc ==
    Desc(<<Prop("path", PathAB), Prop("target", Cell2),
           Prop("transform", UserTransform), Prop("copyData", Bool(FALSE))>>)

DeepDesc ==
    Desc(<<Prop("path", PathAB), Prop("target", Cell1), Prop("deep", Bool(TRUE))>>)

ShallowDesc ==
    Desc(<<Prop("path", PathAB), Prop("target", Cell1), Prop("deep", Bool(FALSE)),
           Prop("copyData", Bool(FALSE))>>)

MissingDesc == Desc(<<Prop("path", PathMissing), Prop("target", Cell2)>>)

ValidDescs ==
    {PlainDesc, ComparatorDesc, TransformDesc, GuardedDesc, DeepDesc, ShallowDesc,
     MissingDesc}

\* the lists of descriptors: every single one, an invalid one before or
\* after a valid one, and pairs of valid ones
DescLists ==
    {<<>>}
    \cup {<<d>> : d \in InvalidDescs \cup ValidDescs}
    \cup {<<i, PlainDesc>> : i \in InvalidDescs}
    \cup {<<PlainDesc, i>> : i \in InvalidDescs}
    \cup {<<PlainDesc, MissingDesc>>, <<MissingDesc, MissingDesc>>,
          <<GuardedDesc, ComparatorDesc>>}

\* the options objects
NoOptions == [immediate |-> Undefined, deep |-> Undefined, debug |-> Undefined]
Lazy == [NoOptions EXCEPT !.immediate = Bool(FALSE)]
Deep == [NoOptions EXCEPT !.deep = Bool(TRUE)]
Verbose == [NoOptions EXCEPT !.debug = Bool(TRUE)]
AllSet == [immediate |-> Bool(FALSE), deep |-> Bool(TRUE), debug |-> Bool(TRUE)]

\* the values the source gets at path a.b
SourceTemplates == {"one", "two", "undefined", "ids1", "ids2", "obj0", "cyclic"}

\* a fresh value of template tpl: [h, v]
MakeValue(h, tpl) ==
    CASE tpl = "one" -> [h |-> h, v |-> Num(1)]
      [] tpl = "two" -> [h |-> h, v |-> Num(2)]
      [] tpl = "undefined" -> [h |-> h, v |-> Undefined]
      [] tpl = "ids1" ->  \* [{ id: 1 }]
            [h |-> h \o <<ObjLit(<<Prop("id", Num(1))>>), ArrLit(<<Ref(Len(h) + 1)>>)>>,
             v |-> Ref(Len(h) + 2)]
      [] tpl = "ids2" ->  \* [{ id: 2 }]
            [h |-> h \o <<ObjLit(<<Prop("id", Num(2))>>), ArrLit(<<Ref(Len(h) + 1)>>)>>,
             v |-> Ref(Len(h) + 2)]
      [] tpl = "obj0" ->  \* { 0: { id: 1 } }
            [h |-> h \o <<ObjLit(<<Prop("id", Num(1))>>),
                          ObjLit(<<Prop("0", Ref(Len(h) + 1))>>)>>,
             v |-> Ref(Len(h) + 2)]
      [] tpl = "cyclic" ->  \* o = { }; o.self = o
            [h |-> h \o <<ObjLit(<<Prop("self", Ref(Len(h) + 1))>>)>>,
             v |-> Ref(Len(h) + 1)]

\* the descriptors of list ds from position i on, as values: [h, items]
RECURSIVE MakeItems(_, _, _)
MakeItems(h, ds, i) ==
    IF i > Len(ds) THEN [h |-> h, items |-> <<>>]
    ELSE LET h1 == IF ds[i].lit THEN Alloc(h, ObjLit(ds[i].props)) ELSE h
             x == IF ds[i].lit THEN Ref(Len(h1)) ELSE ds[i].v
             rest == MakeItems(h1, ds, i + 1)
         IN  [h |-> rest.h, items |-> <<x>> \o rest.items]

\* the mappings argument: an array of descriptors, the record form
\* { 'a.b': ref }, none at all, or null
MappingForms ==
    {[form |-> "array", list |-> ds] : ds \in DescLists}
    \cup {[form |-> f, list |-> <<>>] : f \in {"record", "undefined", "null"}}

\* [h, v]
MakeMappings(h, mf) ==
    CASE mf.form = "array" ->
            LET m == MakeItems(h, mf.list, 1)
            IN  [h |-> Alloc(m.h, ArrLit(m.items)), v |-> Ref(Len(m.h) + 1)]
      [] mf.form = "record" ->
            [h |-> Alloc(h, ObjLit(<<Prop(Join(Chars(PathAB)), Cell1)>>)),
             v |-> Ref(Len(h) + 1)]
      [] mf.form = "undefined" -> [h |-> h, v |-> Undefined]
      [] mf.form = "null" -> [h |-> h, v |-> Null]

ArrayOf(ds) == [form |-> "array", list |-> ds]

\* how the engine is started: PropertySyncer called directly (every form
\* of mappings under the default options, and the valid descriptors under
\* the other options), or through usePropertySyncBlock with a getMappings
\* that returns or throws; tpl is the value the source holds at a.b
DirectStarts ==
    {[mf |-> mf, options |-> NoOptions] : mf \in MappingForms}
    \cup {[mf |-> ArrayOf(<<d>>), options |-> Lazy] :
            d \in {PlainDesc, ComparatorDesc, TransformDesc}}
    \cup {[mf |-> ArrayOf(<<d>>), options |-> Deep] :
            d \in {PlainDesc, ShallowDesc, ComparatorDesc, GuardedDesc}}
    \cup {[mf |-> ArrayOf(ds), options |-> Verbose] :
            ds \in {<<PlainDesc>>, <<MissingDesc>>, <<PlainDesc, MissingDesc>>,
                    <<MissingDesc, MissingDesc>>}}
    \cup {[mf |-> ArrayOf(<<d>>), options |-> AllSet] : d \in {PlainDesc, MissingDesc}}

BlockStarts ==
    {[mf |-> ArrayOf(ds), options |-> NoOptions] :
        ds \in {<<>>, <<PlainDesc>>, <<NonObj(Null), PlainDesc>>,
                <<GuardedDesc, ComparatorDesc>>}}
    \cup {[mf |-> [form |-> "null", list |-> <<>>], options |-> NoOptions]}

\* the values the source takes in a scenario: every one where a single
\* mapping without caller functions copies them, fewer where the caller's
\* functions or several descriptors multiply the runs
Templates(mf) ==
    IF mf.form = "array" /\ Len(mf.list) = 1
          /\ mf.list[1] \in {PlainDesc, GuardedDesc, DeepDesc, ShallowDesc}
    THEN SourceTemplates
    ELSE IF mf.form = "array" /\ Len(mf.list) = 1 /\ mf.list[1] = ComparatorDesc
         THEN {"one", "two", "ids1", "undefined"}
    ELSE IF mf.form = "array" /\ Len(mf.list) = 1 /\ mf.list[1] = TransformDesc
         THEN {"one", "two", "ids1"}
         ELSE {"one", "two"}

Scenarios ==
    {[entry |-> "direct", gm |-> "ret", mf |-> d.mf, options |-> d.options, tpl |-> t] :
        d \in DirectStarts, t \in SourceTemplates}
    \cup {[entry |-> "block", gm |-> "ret", mf |-> d.mf, options |-> d.options, tpl |-> t] :
            d \in BlockStarts, t \in SourceTemplates}
    \cup {[entry |-> "block", gm |-> "throw", mf |-> [form |-> "undefined", list |-> <<>>],
           options |-> NoOptions, tpl |-> "one"]}

\* the source starts with one of the scenario's values
Scenario(sc) == sc.tpl \in Templates(sc.mf)

----------------------------------------------------------------------------
(* Spec: one engine, from its start to its cleanup *)

NoBeh == [cmp |-> NoCall, tr |-> NoCall, set |-> NoCall]

\* what the caller's functions of a validated mapping may do in one run
BehChoices(item) ==
    {[cmp |-> c, tr |-> t, set |-> w] :
        c \in (IF Falsy(item.comparator) THEN {NoCall} ELSE ComparatorOutcomes),
        t \in (IF item.transform = DefaultTransform THEN {NoCall} ELSE TransformOutcomes),
        w \in (IF item.target.v \in Guarded THEN SetterOutcomes ELSE {Ret(Undefined)})}

\* one behaviour for each of the descriptors items[i..]
RECURSIVE BehsOfItems(_, _, _)
BehsOfItems(h, items, i) ==
    IF i > Len(items) THEN {<<>>}
    ELSE LET v == validateMapping(h, items[i], i - 1)
         IN  {<<b>> \o rest :
                 b \in (IF v.ok THEN BehChoices(v.item) ELSE {NoBeh}),
                 rest \in BehsOfItems(h, items, i + 1)}

\* one behaviour for each of the watches ws[i..]
RECURSIVE BehsOfSubs(_, _)
BehsOfSubs(ws, i) ==
    IF i > Len(ws) THEN {<<>>}
    ELSE {<<b>> \o rest :
             b \in (IF ws[i].active THEN BehChoices(ws[i].item) ELSE {NoBeh}),
             rest \in BehsOfSubs(ws, i + 1)}

\* the behaviours to choose from when the engine starts
StartBehs ==
    IF IsObject(cfg.mappings) /\ cfg.gm = "ret"
    THEN With(mapsArrayOf(heap, cfg.mappings), LAMBDA m : BehsOfItems(m.h, m.items, 1))
    ELSE {<<>>}

CurrentE ==
    [h |-> heap, cache |-> pathCache, subs |-> subs, warned |-> warnedPaths,
     warnings |-> warnings]

\* the variables E stands for take E's values
Becomes(E) ==
    /\ heap' = E.h
    /\ pathCache' = E.cache
    /\ subs' = E.subs
    /\ warnedPaths' = E.warned
    /\ warnings' = E.warnings

\* the options the engine runs with
GlobalDeep == ~Falsy(OptionOr(cfg.options.deep, Bool(FALSE)))
Debug == OptionOr(cfg.options.debug, Bool(FALSE))
Immediate == ~Falsy(OptionOr(cfg.options.immediate, Bool(TRUE)))

InitEngine ==
    \E sc \in {x \in Scenarios : Scenario(x)} :
        LET m == MakeMappings(BaseHeap, sc.mf)
            x == MakeValue(m.h, sc.tpl)
        IN  /\ heap = Set(x.h, SourceInner, "b", x.v)
            /\ cfg = [source |-> SourceRoot, mappings |-> m.v, options |-> sc.options,
                      entry |-> sc.entry, gm |-> sc.gm, values |-> Templates(sc.mf)]
            /\ arr = [pc |-> "idle", live |-> Undefined, new |-> Undefined, h0 |-> <<>>]
            /\ pathCache = <<>>
            /\ pc = "init"
            /\ subs = <<>>
            /\ stops = <<>>
            /\ cleanupKind = "none"
            /\ warnedPaths = {}
            /\ warnings = <<>>
            /\ hooks = 0
            /\ pending = FALSE
            /\ calls = [stop |-> 0, mutations |-> 0]
            /\ raised = {}

\* the caller calls PropertySyncer(source, mappings, options)
StartDirect ==
    /\ pc = "init"
    /\ cfg.entry = "direct"
    /\ \E behs \in StartBehs :
          With(PropertySyncer(CurrentE, cfg.source, cfg.mappings, cfg.options, behs),
               LAMBDA r :
              /\ Becomes(r.E)
              /\ stops' = r.stops
              /\ cleanupKind' = r.kind
              /\ pc' = IF r.threw THEN "failed" ELSE "running"
              /\ raised' = IF r.threw THEN raised \cup {"PropertySyncer"} ELSE raised)
    /\ UNCHANGED <<arr, cfg, hooks, pending, calls>>

\* the caller calls usePropertySyncBlock(source, getMappings, options)
StartBlock ==
    /\ pc = "init"
    /\ cfg.entry = "block"
    /\ \E behs \in StartBehs :
          With(usePropertySyncBlock(CurrentE, cfg.source,
                      IF cfg.gm = "throw" THEN Throw ELSE Ret(cfg.mappings),
                      cfg.options, behs),
               LAMBDA r :
              /\ Becomes(r.E)
              /\ stops' = r.stops
              /\ cleanupKind' = r.kind
              /\ hooks' = r.hooks
              /\ pc' = IF r.threw THEN "failed" ELSE "running"
              /\ raised' = IF r.threw THEN raised \cup {"usePropertySyncBlock"}
                           ELSE raised)
    /\ UNCHANGED <<arr, cfg, pending, calls>>

\* the application writes source.a.b = <a fresh value>; the host queues the
\* jobs of the watches
ReplaceSource ==
    /\ pc = "running"
    /\ calls.mutations < MaxMutations
    /\ \E tpl \in cfg.values :
          With(MakeValue(heap, tpl), LAMBDA x :
              heap' = Set(x.h, Get(x.h, cfg.source, "a"), "b", x.v))
    /\ pending' = TRUE
    /\ calls' = [calls EXCEPT !.mutations = @ + 1]
    /\ UNCHANGED <<arr, pathCache, cfg, pc, subs, stops, cleanupKind, warnedPaths,
                   warnings, hooks, raised>>

\* the host flushes the queued jobs
Flush ==
    /\ pc = "running"
    /\ pending
    /\ \E behs \in BehsOfSubs(subs, 1) :
          Becomes(flushJobs(CurrentE, 1, GlobalDeep, Debug, cfg.source, behs))
    /\ pending' = FALSE
    /\ UNCHANGED <<arr, cfg, pc, stops, cleanupKind, hooks, calls, raised>>

\* the cleanup function is called; outs is what each disposer does
CallCleanup(who) ==
    \E outs \in [1..Len(subs) -> SetterOutcomes] :
        With(cleanup(CurrentE, cleanupKind, stops, outs), LAMBDA r :
            /\ Becomes(r.E)
            /\ stops' = r.stops
            /\ raised' = IF r.threw THEN raised \cup {who} ELSE raised
            /\ calls' = [calls EXCEPT !.stop = @ + 1])

\* the caller calls the function it got back
Stop ==
    /\ pc = "running"
    /\ calls.stop < MaxStopCalls
    /\ CallCleanup("stop")
    /\ UNCHANGED <<arr, cfg, pc, cleanupKind, hooks, pending>>

\* the component unmounts and the host runs its onUnmounted hook, once:
\* if (stopSync) stopSync()
Unmount ==
    /\ pc = "running"
    /\ hooks > 0
    /\ CallCleanup("unmount")
    /\ hooks' = hooks - 1
    /\ UNCHANGED <<arr, cfg, pc, cleanupKind, pending>>

Next ==
    \/ StartDirect
    \/ StartBlock
    \/ ReplaceSource
    \/ Flush
    \/ Stop
    \/ Unmount

Spec == InitEngine /\ [][Next]_vars

----------------------------------------------------------------------------
(* Structural equality of a value of heap h1 and a value of heap h2, as the *)
(* claims mean it: the same primitive, or two arrays of equal length with  *)
(* equal elements, or two plain objects with the same own keys and equal   *)
(* values.  Compared down to depth n.                                      *)

RECURSIVE StructEq(_, _, _, _, _)
StructEq(h1, x, h2, y, n) ==
    IF ~IsObject(x) \/ ~IsObject(y) THEN x = y
    ELSE /\ h1[x.v].arr = h2[y.v].arr
         /\ {p.k : p \in {h1[x.v].props[i] : i \in 1..Len(h1[x.v].props)}}
              = {p.k : p \in {h2[y.v].props[i] : i \in 1..Len(h2[y.v].props)}}
         /\ n > 0 =>
              \A i \in 1..Len(h1[x.v].props) :
                  StructEq(h1, h1[x.v].props[i].v,
                           h2, Get(h2, y, h1[x.v].props[i].k), n - 1)

\* deep enough for every value the model builds
EqDepth == 4

----------------------------------------------------------------------------
(* SpecArr: updateArray applied to every pair of arrays over a fixed set   *)
(* of elements                                                             *)

\* the element objects the arrays are made of
ElemHeap ==
    << ObjLit(<<Prop("id", Num(1)), Prop("v", Num(1))>>),
       ObjLit(<<Prop("id", Num(1)), Prop("v", Num(1))>>),
       ObjLit(<<Prop("id", Num(1)), Prop("v", Num(2)), Prop("w", Num(1))>>),
       ArrLit(<<Num(1)>>),
       ArrLit(<<Num(1)>>) >>

ElemValues == {Num(1), Num(2)} \cup {Ref(a) : a \in 1..Len(ElemHeap)}

ElemSeqs == UNION {[1..n -> ElemValues] : n \in 0..MaxLen}

InitArr ==
    /\ \E l \in ElemSeqs, n \in ElemSeqs :
           /\ heap = ElemHeap \o <<ArrLit(l), ArrLit(n)>>
           /\ arr = [pc |-> "ready", live |-> Ref(Len(ElemHeap) + 1),
                     new |-> Ref(Len(ElemHeap) + 2), h0 |-> <<>>]
    /\ pathCache = <<>>
    /\ cfg = [source |-> Undefined, mappings |-> Undefined, options |-> NoOptions,
              entry |-> "none", gm |-> "ret"]
    /\ pc = "none"
    /\ subs = <<>>
    /\ stops = <<>>
    /\ cleanupKind = "none"
    /\ warnedPaths = {}
    /\ warnings = <<>>
    /\ hooks = 0
    /\ pending = FALSE
    /\ calls = [stop |-> 0, mutations |-> 0]
    /\ raised = {}

\* the call updateArray(live, new)
CallUpdateArray ==
    /\ arr.pc = "ready"
    /\ heap' = updateArray(heap, arr.live, arr.new)
    /\ arr' = [arr EXCEPT !.pc = "done", !.h0 = heap]
    /\ UNCHANGED engineVars

NextArr == CallUpdateArray

SpecArr == InitArr /\ [][NextArr]_vars

----------------------------------------------------------------------------
(* Claims about updateArray, checked under SpecArr *)

\* the elements of array x in heap h
Elems(h, x) == {h[x.v].props[i].v : i \in 1..Len(h[x.v].props)}

\* the containers among them
ElemRefs(h, x) == {e \in Elems(h, x) : IsObject(e)}

\* C8: after updateArray(live, new) the live array has the length of new and
\* is structurally equal to new as new was before the call
C8_LiveEqualsNew ==
    arr.pc = "done" =>
        /\ Length(heap, arr.live) = Length(arr.h0, arr.new)
        /\ StructEq(heap, arr.live, arr.h0, arr.new, EqDepth)

\* C9: a slot of live holding a container that is structurally equal to
\* new's element at that index keeps its reference, and so does a slot whose
\* plain object meets a plain object of new
C9_SlotKeepsReference ==
    arr.pc = "done" =>
        \A i \in 0..(Length(arr.h0, arr.live) - 1) :
            i < Length(arr.h0, arr.new) =>
                LET li == Get(arr.h0, arr.live, IdxKey(i))
                    ni == Get(arr.h0, arr.new, IdxKey(i))
                IN  /\ IsObject(li) /\ StructEq(arr.h0, li, arr.h0, ni, EqDepth)
                        => Get(heap, arr.live, IdxKey(i)) = li
                    /\ IsObject(li) /\ IsObject(ni)
                       /\ ~IsArray(arr.h0, li) /\ ~IsArray(arr.h0, ni)
                        => Get(heap, arr.live, IdxKey(i)) = li

\* C10: when live and new shared no reference before the call, no slot of
\* live holds the reference of an element of new after it
C10_NoAliasOfNew ==
    (arr.pc = "done" /\ ElemRefs(arr.h0, arr.live) \cap ElemRefs(arr.h0, arr.new) = {})
        => ElemRefs(heap, arr.live) \cap ElemRefs(arr.h0, arr.new) = {}

----------------------------------------------------------------------------
(* Claims about the engine, checked under Spec *)

\* the value now at the path of watch w, and the value its target holds
SourceValue(w) == getByPath(pathCache, heap, cfg.source, w.item.path).v
TargetValue(w) == Get(heap, w.item.target, "value")

\* the ways a run of the handler ends once it reached step four
WriteStage == {"equal", "reconciled", "assigned", "writefail"}

\* what the target of watch w holds in heap h: its value and, for an
\* object, the object's own properties
TargetState(h, w) ==
    LET x == Get(h, w.item.target, "value")
    IN  <<x, IF IsObject(x) THEN h[x.v] ELSE EmptyObject>>

\* C1: with immediate on, once the handler of a mapping with no comparator
\* and the default transform has run for the value now at its path (at
\* registration, unless that value is undefined, or at a later flush),
\* target.value is structurally equal to that value.
C1_TargetMirrorsSource ==
    (pc = "running" /\ Immediate /\ ~pending /\ calls.stop = 0) =>
        \A i \in 1..Len(subs) :
            LET w == subs[i]
                sv == SourceValue(w)
            IN  (/\ Falsy(w.item.comparator)
                 /\ w.item.transform = DefaultTransform
                 /\ w.item.target.v \notin Guarded
                 /\ w.last.out # "none"
                 /\ w.last.sv = sv
                 /\ ~(w.last.ov = Undefined /\ sv = Undefined))
                => StructEq(heap, TargetValue(w), heap, sv, EqDepth)

\* C2: once the cleanup function was called no watch is active again, no
\* later step writes to a target, and no call of the cleanup function throws.
C2_StoppedIsTerminal ==
    /\ []("stop" \notin raised)
    /\ [](calls.stop >= 1 => \A i \in 1..Len(subs) : ~subs[i].active)
    /\ [][calls.stop >= 1 =>
            /\ Len(subs') = Len(subs)
            /\ \A i \in 1..Len(subs) :
                  /\ subs'[i].writes = subs[i].writes
                  /\ subs'[i].last = subs[i].last
                  /\ TargetState(heap', subs[i]) = TargetState(heap, subs[i])]_vars

\* the cleanup function was called twice and the source was replaced and
\* the jobs flushed after the first call: a stopped watch did not follow
C2_Witness ==
    /\ calls.stop >= 2
    /\ calls.mutations >= 1
    /\ ~pending
    /\ \E i \in 1..Len(subs) :
          /\ subs[i].disposals = 1
          /\ subs[i].writes >= 1
          /\ SourceValue(subs[i]) # subs[i].old

\* C3: an engine started by usePropertySyncBlock has the disposer of each of
\* its watches called once when the stop function or the unmount hook runs
\* first, and never again, whatever the disposers of the other watches do.
C3_DisposedExactlyOnce ==
    cfg.entry = "block" =>
        \A i \in 1..Len(subs) :
            subs[i].disposals = IF calls.stop >= 1 THEN 1 ELSE 0

\* the stop function and the unmount hook both ran on an engine of two
\* watches, and the disposer of the first threw
C3_Witness ==
    /\ cfg.entry = "block"
    /\ pc = "running"
    /\ hooks = 0
    /\ calls.stop >= 2
    /\ Len(subs) = 2
    /\ subs[1].disposerThrew
    /\ subs[2].disposals = 1
    /\ ~subs[2].active

\* C4: a run of the handler that called the comparator ended suppressed
\* exactly when the comparator returned the boolean false; otherwise it
\* went on to step four with the final value of a mapping without comparator.
C4_SuppressedIffFalse ==
    \A i \in 1..Len(subs) :
        LET r == subs[i].last
        IN  r.cmp # NoCall =>
                /\ (r.out = "suppressed") <=> (r.cmp = Ret(Bool(FALSE)))
                /\ r.cmp # Ret(Bool(FALSE)) =>
                      /\ r.out \in WriteStage
                      /\ r.tr = NoCall => StructEq(heap, r.final, heap, r.sv, EqDepth)

\* on a later notification the comparator returned a falsy value that is
\* not false, or threw, and the target was written
C4_Witness ==
    \E i \in 1..Len(subs) :
        /\ subs[i].last.cmp \in {Ret(Num(0)), Ret(Null), Ret(Undefined), Throw}
        /\ subs[i].last.ov # Undefined
        /\ subs[i].last.out \in {"assigned", "reconciled"}
        /\ TargetValue(subs[i]) = subs[i].last.final

\* a descriptor as the specification defines a valid one: a record with a
\* non-empty string path and a target object exposing a value slot
ValidDescriptor(h, d) ==
    /\ IsObject(d)
    /\ TypeOf(Get(h, d, "path")) = "string"
    /\ Get(h, d, "path") # EmptyStr
    /\ IsObject(Get(h, d, "target"))
    /\ In(h, Get(h, d, "target"), "value")

\* C5: PropertySyncer called with a list of descriptors returns, and its
\* watches are those of the valid descriptors of the list, one each, all
\* active until the cleanup function is called.
C5_OneWatchPerValidDescriptor ==
    (cfg.entry = "direct" /\ pc # "init" /\ IsArray(heap, cfg.mappings)) =>
        LET valid == {i \in 0..(Length(heap, cfg.mappings) - 1) :
                        ValidDescriptor(heap, Get(heap, cfg.mappings, IdxKey(i)))}
        IN  /\ pc = "running"
            /\ "PropertySyncer" \notin raised
            /\ Len(subs) = Cardinality(valid)
            /\ {subs[k].index : k \in 1..Len(subs)} = valid
            /\ calls.stop = 0 => \A k \in 1..Len(subs) : subs[k].active

\* a list whose first descriptor is invalid and whose second is valid
C5_Witness ==
    /\ cfg.entry = "direct"
    /\ pc = "running"
    /\ calls.stop = 0
    /\ IsArray(heap, cfg.mappings)
    /\ Length(heap, cfg.mappings) = 2
    /\ ~ValidDescriptor(heap, Get(heap, cfg.mappings, IdxKey(0)))
    /\ Len(subs) = 1
    /\ subs[1].index = 1
    /\ subs[1].active

\* C6: no run of a handler lets an exception out.
C6_HandlerNeverRaises == \A i \in 1..Len(subs) : ~subs[i].everRaised

\* C7: a run of the handler whose transform threw went on to step four
\* with the source value of that run, itself and no copy, as the final value.
C7_ThrowFallsBackToSource ==
    \A i \in 1..Len(subs) :
        LET r == subs[i].last
        IN  r.tr = Throw =>
                /\ r.final = r.sv
                /\ r.out \in WriteStage
                /\ r.out = "assigned" => TargetValue(subs[i]) = r.sv

\* the transform threw on an array and the target was assigned that array
C7_Witness ==
    \E i \in 1..Len(subs) :
        /\ subs[i].last.tr = Throw
        /\ subs[i].item.copyData = Bool(TRUE)
        /\ IsArray(heap, subs[i].last.sv)
        /\ subs[i].last.out = "assigned"
        /\ TargetValue(subs[i]) = subs[i].last.sv

----------------------------------------------------------------------------
(* The bidirectional version of PropertySyncer: setByPath, the getByPath   *)
(* it reads with, and the callback of the reverse watch (deep: false).     *)

\* path.replace(/\[(\d+)\]/g, '.$1').split('.'), as property keys
Keys(path) ==
    LET pieces == Split(ReplaceBrackets(Chars(path), 1), 1, <<>>)
    IN  [i \in 1..Len(pieces) |-> Join(pieces[i])]

\* isNaN(k) of a key: Number(k) is a number for '' and for a run of digits
IsNaN(k) == k # "" /\ ~IsIndexKey(k)

\* the loop of setByPath from key i on, and the assignment after it:
\* [h, threw].  'key in current' throws for a current that is no object,
\* and so does the assignment to a property of null
RECURSIVE setByPathWalk(_, _, _, _, _)
setByPathWalk(h, keys, current, i, value) ==
    IF ~IsObject(current) THEN [h |-> h, threw |-> TRUE]
    ELSE IF i = Len(keys) THEN [h |-> Set(h, current, keys[i], value), threw |-> FALSE]
    ELSE IF ~In(h, current, keys[i]) \/ TypeOf(Get(h, current, keys[i])) # "object"
         THEN With(Alloc(h, IF IsNaN(keys[i + 1]) THEN EmptyObject ELSE EmptyArray),
                   LAMBDA h1 :
                  setByPathWalk(Set(h1, current, keys[i], Ref(Len(h1))), keys,
                                Ref(Len(h1)), i + 1, value))
         ELSE setByPathWalk(h, keys, Get(h, current, keys[i]), i + 1, value)

\* setByPath(obj, path, value): [h, threw]
setByPath(h, obj, path, value) ==
    IF Falsy(obj) \/ Falsy(path) THEN [h |-> h, threw |-> FALSE]
    ELSE setByPathWalk(h, Keys(path), obj, 1, value)

\* the function getByPath compiles, obj["k1"]["k2"]... inside try/catch,
\* from key i on: reading a property of null or undefined throws and gives
\* undefined, a primitive has none of the keys
RECURSIVE getByPathFn(_, _, _, _)
getByPathFn(h, keys, current, i) ==
    IF i > Len(keys) THEN current
    ELSE IF IsNullish(current) THEN Undefined
    ELSE IF ~IsObject(current) THEN getByPathFn(h, keys, Undefined, i + 1)
    ELSE getByPathFn(h, keys, Get(h, current, keys[i]), i + 1)

\* getByPath(obj, path) of the bidirectional version
getByPathCompiled(h, obj, path) ==
    IF Falsy(obj) \/ Falsy(path) THEN Undefined
    ELSE getByPathFn(h, SelectSeq(Keys(path), LAMBDA k : k # ""), obj, 1)

\* (newVal, oldVal) => { if (!comparator(newVal, oldVal)) return;
\*                       setByPath(unref(source), path, newVal) }: [h, out];
\* cmp is NoCall when the mapping has no comparator (the default one is
\* a !== b) and else what the mapping's comparator does
reverseHandler(h, source, path, cmp, newVal, oldVal) ==
    IF cmp = Throw THEN [h |-> h, out |-> "raised"]
    ELSE IF Falsy(IF cmp = NoCall THEN Bool(newVal # oldVal) ELSE cmp.v)
    THEN [h |-> h, out |-> "gated"]
    ELSE With(setByPath(h, source, path, newVal), LAMBDA x :
             [h |-> x.h, out |-> IF x.threw THEN "raised" ELSE "written"])

----------------------------------------------------------------------------
(* SpecFn: one call of a utility function (utils.isDeepEqual,              *)
(* utils.getByPath) on values of the heap                                  *)
(*   1  { id: 1 }      2  { id: 1 }     3  { id: 2 }     4  [1]            *)
(*   5  { 0: 1 }       6  []            7  { }           8  [<1>]          *)
(*   9  [<2>]         10  o, o.self = o                 11  the same again *)
(*  12  { a: <13> }   13  { b: 1 }       14  { a: null }  15  { a: 1 }      *)
(*  16  { a: <4> }    17  { a: <6> }                                       *)
(* and the reverse watch callback of the bidirectional version on a source *)
(* that is any of these but an array.  arr holds the call: [pc, fn, a, b,  *)
(* r], and for the callback the source a, the path b, the comparator cmp   *)
(* and the values new and old the host calls it with.                      *)

FnHeap ==
    << ObjLit(<<Prop("id", Num(1))>>),
       ObjLit(<<Prop("id", Num(1))>>),
       ObjLit(<<Prop("id", Num(2))>>),
       ArrLit(<<Num(1)>>),
       ObjLit(<<Prop("0", Num(1))>>),
       EmptyArray,
       EmptyObject,
       ArrLit(<<Ref(1)>>),
       ArrLit(<<Ref(2)>>),
       ObjLit(<<Prop("self", Ref(10))>>),
       ObjLit(<<Prop("self", Ref(11))>>),
       ObjLit(<<Prop("a", Ref(13))>>),
       ObjLit(<<Prop("b", Num(1))>>),
       ObjLit(<<Prop("a", Null)>>),
       ObjLit(<<Prop("a", Num(1))>>),
       ObjLit(<<Prop("a", Ref(4))>>),
       ObjLit(<<Prop("a", Ref(6))>>) >>

FnValues ==
    {Undefined, Null, Num(1), Num(2), Bool(TRUE), SomeStr}
    \cup {Ref(a) : a \in 1..Len(FnHeap)}

InitFn ==
    /\ heap = FnHeap
    /\ \/ \E a \in FnValues, b \in FnValues :
             arr = [pc |-> "ready", fn |-> "isDeepEqual", a |-> a, b |-> b,
                    r |-> Undefined]
       \/ \E root \in FnValues, path \in MalformedPaths \cup {PathAB} :
             arr = [pc |-> "ready", fn |-> "getByPath", a |-> root, b |-> path,
                    r |-> Undefined]
       \/ \E root \in FnValues, path \in WellFormedPaths,
             fn \in {"accessor", "checkPathExists"} :
             arr = [pc |-> "ready", fn |-> fn, a |-> root, b |-> path,
                    r |-> Undefined]
       \/ \E source \in {x \in FnValues : ~IsArray(FnHeap, x)},
             path \in {PathAB, PathA0},
             cmp \in {NoCall, Ret(Bool(TRUE)), Ret(Bool(FALSE)), Throw},
             new \in {Num(2), Ref(1)}, old \in {Undefined, Num(2)} :
             arr = [pc |-> "ready", fn |-> "reverse", a |-> source, b |-> path,
                    cmp |-> cmp, new |-> new, old |-> old, r |-> Undefined]
    /\ pathCache = <<>>
    /\ cfg = [source |-> Undefined]
    /\ pc = "none"
    /\ subs = <<>>
    /\ stops = <<>>
    /\ cleanupKind = "none"
    /\ warnedPaths = {}
    /\ warnings = <<>>
    /\ hooks = 0
    /\ pending = FALSE
    /\ calls = [stop |-> 0, mutations |-> 0]
    /\ raised = {}

\* isDeepEqual(a, b): r is "true", "false" or, when the recursion has no
\* end, "overflow"
CallIsDeepEqual ==
    /\ arr.pc = "ready"
    /\ arr.fn = "isDeepEqual"
    /\ arr' = [arr EXCEPT !.pc = "done", !.r = DeepEqual(heap, arr.a, arr.b)]
    /\ UNCHANGED <<heap, engineVars>>

\* getByPath(root, path): r is the value returned
CallGetByPath ==
    /\ arr.pc = "ready"
    /\ arr.fn = "getByPath"
    /\ With(getByPath(pathCache, heap, arr.a, arr.b), LAMBDA g :
          /\ arr' = [arr EXCEPT !.pc = "done", !.r = g.v]
          /\ pathCache' = g.cache)
    /\ UNCHANGED <<heap, cfg, pc, subs, stops, cleanupKind, warnedPaths, warnings,
                   hooks, pending, calls, raised>>

\* compilePath(path)(root): r is the value the accessor returns
CallAccessor ==
    /\ arr.pc = "ready"
    /\ arr.fn = "accessor"
    /\ With(compilePath(pathCache, arr.b), LAMBDA c :
          /\ arr' = [arr EXCEPT !.pc = "done", !.r = Accessor(heap, c.fn.segments, arr.a, 1)]
          /\ pathCache' = c.cache)
    /\ UNCHANGED <<heap, cfg, pc, subs, stops, cleanupKind, warnedPaths, warnings,
                   hooks, pending, calls, raised>>

\* checkPathExists(root, path): r is the boolean returned
CallCheckPathExists ==
    /\ arr.pc = "ready"
    /\ arr.fn = "checkPathExists"
    /\ arr' = [arr EXCEPT !.pc = "done", !.r = Bool(checkPathExists(heap, arr.a, arr.b))]
    /\ UNCHANGED <<heap, engineVars>>

\* the host calls the reverse watch callback with (new, old): r is how it ends
CallReverseHandler ==
    /\ arr.pc = "ready"
    /\ arr.fn = "reverse"
    /\ With(reverseHandler(heap, arr.a, arr.b, arr.cmp, arr.new, arr.old), LAMBDA x :
          /\ arr' = [arr EXCEPT !.pc = "done", !.r = x.out]
          /\ heap' = x.h)
    /\ UNCHANGED engineVars

NextFn ==
    \/ CallIsDeepEqual
    \/ CallGetByPath
    \/ CallAccessor
    \/ CallCheckPathExists
    \/ CallReverseHandler

SpecFn == InitFn /\ [][NextFn]_vars

----------------------------------------------------------------------------
(* Claims about the utility functions, checked under SpecFn *)

\* the values that reach one of the two self-referential objects
Cyclic == {Ref(10), Ref(11)}

\* C11: isDeepEqual returns a boolean for every pair of values, the
\* self-referential ones included, and true for a value and itself.
C11_DeepEqualTerminates ==
    (arr.pc = "done" /\ arr.fn = "isDeepEqual") =>
        /\ arr.r \in {"true", "false"}
        /\ arr.a = arr.b => arr.r = "true"

\* C12: for values free of cycles isDeepEqual is true exactly when the two
\* are structurally equal.
C12_DeepEqualIsStructural ==
    (arr.pc = "done" /\ arr.fn = "isDeepEqual" /\ {arr.a, arr.b} \cap Cyclic = {}) =>
        (arr.r = "true") <=> StructEq(heap, arr.a, heap, arr.b, EqDepth)

\* C13: getByPath returns undefined for an empty or malformed path,
\* whatever the root.
C13_MalformedPathNotFound ==
    (arr.pc = "done" /\ arr.fn = "getByPath" /\ arr.b \in MalformedPaths) =>
        arr.r = Undefined

----------------------------------------------------------------------------
(* Claims about the engine, checked under Spec (continued) *)

\* the path of watch k is missing from the source
PathIsMissing(k) == ~checkPathExists(heap, cfg.source, subs[k].item.path)

\* C14: with debug on, a missing path resolves to undefined and nothing is
\* raised; however often the getters run, and however many mappings use
\* the path, the warning is there exactly once for each missing path and
\* never for a path whose key is present.
C14_WarnsOncePerMissingPath ==
    (~Falsy(Debug) /\ pc = "running") =>
        /\ "PropertySyncer" \notin raised
        /\ \A i \in DOMAIN warnings, j \in DOMAIN warnings :
              warnings[i] = warnings[j] => i = j
        /\ \A i \in DOMAIN warnings :
              ~checkPathExists(heap, cfg.source, Str(warnings[i]))
        /\ \A k \in DOMAIN subs :
              PathIsMissing(k) =>
                  /\ subs[k].old = Undefined
                  /\ \E i \in DOMAIN warnings : warnings[i] = subs[k].item.path.v

\* two mappings of one missing path, the getters have run again after a
\* change of the source, and there is one warning
C14_Witness ==
    /\ ~Falsy(Debug)
    /\ pc = "running"
    /\ Len(subs) = 2
    /\ PathIsMissing(1) /\ PathIsMissing(2)
    /\ calls.mutations > 0 /\ ~pending
    /\ calls.stop = 0
    /\ Len(warnings) = 1

\* usePropertySyncBlock was called with a getMappings that throws
ProducerThrew == cfg.entry = "block" /\ cfg.gm = "throw" /\ pc # "init"

\* C15: when getMappings throws, usePropertySyncBlock does not throw and
\* starts no subscription, and a call of the function it returns changes
\* nothing and does not throw.
C15_ProducerThrowIsContained ==
    /\ [](ProducerThrew =>
            /\ pc = "running"
            /\ raised = {}
            /\ subs = <<>>)
    /\ [][(ProducerThrew /\ calls'.stop > calls.stop) =>
            UNCHANGED <<heap, pathCache, subs, stops, warnedPaths, warnings, hooks>>]_vars

\* getMappings threw and the returned function has been called
C15_Witness == ProducerThrew /\ calls.stop > 0 /\ "stop" \notin raised

\* the mode watch w compares in: the mapping's deep if it has one, else the
\* deep option
UseDeep(w) == IF w.item.deep # Undefined THEN ~Falsy(w.item.deep) ELSE GlobalDeep

\* PropertySyncer returned and the source was not written since
JustStarted == pc = "running" /\ calls.mutations = 0

\* what the target of watch w held before PropertySyncer was called
TargetBefore(w) == Get(BaseHeap, w.item.target, "value")

\* C18 as stated: with immediate on, the first run calls a supplied
\* comparator with (current value, undefined), whatever the current value.
C18_InitialRunCallsComparator ==
    (JustStarted /\ Immediate) =>
        \A i \in 1..Len(subs) :
            LET w == subs[i]
            IN  ~Falsy(w.item.comparator) =>
                    /\ w.last.cmp # NoCall
                    /\ StructEq(heap, w.last.cn, heap, SourceValue(w), EqDepth)
                    /\ w.last.co = Undefined

\* C18: with immediate on, the first run is the handler called with
\* (current value, undefined): when the current value is not undefined a
\* supplied comparator is called with (current value, undefined), and when
\* it returns false the target holds what it held before registration; when
\* the current value is undefined the run ends at step one, the comparator
\* is not called and the target is not written.
C18_InitialRunIsAChangeFromUndefined ==
    (JustStarted /\ Immediate) =>
        \A i \in 1..Len(subs) :
            LET w == subs[i]
                sv == SourceValue(w)
            IN  ~Falsy(w.item.comparator) =>
                    /\ w.last.sv = sv /\ w.last.ov = Undefined
                    /\ sv # Undefined =>
                          /\ w.last.cmp # NoCall
                          /\ StructEq(heap, w.last.cn, heap, sv, EqDepth)
                          /\ w.last.co = Undefined
                    /\ sv = Undefined =>
                          /\ w.last.out = "same"
                          /\ w.last.cmp = NoCall
                          /\ TargetValue(w) = TargetBefore(w)
                    /\ w.last.cmp = Ret(Bool(FALSE)) =>
                          /\ w.last.out = "suppressed"
                          /\ TargetValue(w) = TargetBefore(w)

\* the first run called the comparator with an array and undefined, it
\* returned false and the target holds what it held
C18_Witness ==
    /\ JustStarted /\ Immediate
    /\ \E i \in 1..Len(subs) :
          /\ IsObject(SourceValue(subs[i]))
          /\ IsObject(subs[i].last.cn)
          /\ subs[i].last.co = Undefined
          /\ subs[i].last.cmp = Ret(Bool(FALSE))
          /\ TargetValue(subs[i]) = TargetBefore(subs[i])

\* the heap as step four of a run in this step found it: the objects there
\* were before the step, and the copies the run made
HeapAtWrite == heap \o SubSeq(heap', Len(heap) + 1, Len(heap'))

\* this step ran the handler of the only watch there is as far as step four
RanToWrite ==
    /\ Len(subs') = 1
    /\ Len(subs) = 0 \/ subs[1].last # subs'[1].last
    /\ subs'[1].last.out \in WriteStage

\* how step four of that run compared the target's value with the final value
WriteCompare ==
    HandlerEqual(HeapAtWrite, UseDeep(subs'[1]),
                 Get(heap, subs'[1].item.target, "value"), subs'[1].last.final)

\* C19: a run whose final value equals the target's value, by reference in
\* shallow mode and by isDeepEqual in deep mode (the mapping's deep if it
\* has one, else the deep option), assigns nothing and reconciles nothing:
\* every object is as it was.
C19_EqualFinalIsNotWritten ==
    [][(RanToWrite /\ WriteCompare = "true") =>
           SubSeq(heap', 1, Len(heap)) = heap]_vars

\* after a change of the source the transform returned what the target
\* holds, and the run wrote nothing
C19_Witness ==
    /\ Len(subs) = 1
    /\ subs[1].last.ov # Undefined
    /\ subs[1].last.out \in WriteStage
    /\ subs[1].last.set = NoCall
    /\ HandlerEqual(heap, UseDeep(subs[1]), TargetValue(subs[1]), subs[1].last.final)
          = "true"
    /\ subs[1].writes = 1

\* C20: a run that has to write leaves target.value the array it was when
\* that and the final value are both arrays, and else assigns the final
\* value itself to target.value.
C20_ArraysKeptElseAssigned ==
    [][(RanToWrite /\ WriteCompare = "false" /\ subs'[1].last.set # Throw) =>
           IF /\ IsArray(HeapAtWrite, subs'[1].last.final)
              /\ IsArray(heap, Get(heap, subs'[1].item.target, "value"))
           THEN Get(heap', subs'[1].item.target, "value")
                    = Get(heap, subs'[1].item.target, "value")
           ELSE Get(heap', subs'[1].item.target, "value") = subs'[1].last.final]_vars

\* the target held an array, the final value was another array, and the
\* target holds the array it held, now equal to the final value
C20_Witness ==
    /\ Len(subs) = 1
    /\ subs[1].last.ov # Undefined
    /\ IsArray(heap, subs[1].last.final)
    /\ IsArray(heap, TargetValue(subs[1]))
    /\ TargetValue(subs[1]) # subs[1].last.final
    /\ subs[1].writes = 2
    /\ StructEq(heap, TargetValue(subs[1]), heap, subs[1].last.final, EqDepth)

\* C27: a run whose transform returned undefined goes on with the
\* untransformed input as the final value (a deep copy of the source value
\* when copyData is on and it is an object, else the source value itself),
\* and no run for a source value that is not undefined, whatever its
\* transform does, ends with an undefined final value or target.
C27_UndefinedResultKeepsInput ==
    \A i \in 1..Len(subs) :
        LET r == subs[i].last
        IN  /\ r.tr = Ret(Undefined) =>
                  /\ r.out \in WriteStage
                  /\ StructEq(heap, r.final, heap, r.sv, EqDepth)
                  /\ IF subs[i].item.copyData = Bool(TRUE) /\ IsObject(r.sv)
                     THEN r.final # r.sv
                     ELSE r.final = r.sv
            /\ (r.sv # Undefined /\ r.out \in WriteStage) => r.final # Undefined
            /\ (r.sv # Undefined /\ r.out \in {"assigned", "reconciled"}) =>
                  TargetValue(subs[i]) # Undefined

\* the transform returned undefined for an array and the target was
\* assigned a copy of the array
C27_Witness ==
    \E i \in 1..Len(subs) :
        /\ subs[i].last.tr = Ret(Undefined)
        /\ IsArray(heap, subs[i].last.sv)
        /\ subs[i].last.out = "assigned"
        /\ TargetValue(subs[i]) = subs[i].last.final
        /\ TargetValue(subs[i]) # subs[i].last.sv

----------------------------------------------------------------------------
(* SpecInPlace: PropertySyncer called with deep: true, and an application  *)
(* that also changes the object at a.b in place.  Every watch was created  *)
(* with deep: false and a getter that reads source.a.b and nothing below   *)
(* it: the host calls a watch's callback only when the getter returns a    *)
(* value that is not the one it returned before.  arr.pc records that an   *)
(* in-place change was made.                                               *)

\* what an in-place change stores
Patched == Num(9)

InitInPlace ==
    /\ InitEngine
    /\ cfg.entry = "direct"
    /\ GlobalDeep

\* the application writes source.a.b[k] = 9 for a key k the object at a.b
\* has; the object at a.b stays the same object
MutateInPlace ==
    /\ pc = "running"
    /\ calls.mutations < MaxMutations
    /\ With(Get(heap, Get(heap, cfg.source, "a"), "b"), LAMBDA v :
          /\ IsObject(v)
          /\ \E i \in 1..Len(heap[v.v].props) :
                /\ heap[v.v].props[i].v # Patched
                /\ heap' = Set(heap, v, heap[v.v].props[i].k, Patched))
    /\ pending' = TRUE
    /\ calls' = [calls EXCEPT !.mutations = @ + 1]
    /\ arr' = [arr EXCEPT !.pc = "mutated"]
    /\ UNCHANGED <<pathCache, cfg, pc, subs, stops, cleanupKind, warnedPaths,
                   warnings, hooks, raised>>

NextInPlace ==
    \/ StartDirect
    \/ ReplaceSource
    \/ MutateInPlace
    \/ Flush
    \/ Stop

SpecInPlace == InitInPlace /\ [][NextInPlace]_vars

\* C16: with deep on, after a change made in place below the object at a
\* mapped path and the flush that follows it, target.value is structurally
\* equal to the object as it now is.
C16_InPlaceChangePropagates ==
    (pc = "running" /\ Immediate /\ arr.pc = "mutated" /\ ~pending /\ calls.stop = 0) =>
        \A i \in 1..Len(subs) :
            LET w == subs[i]
            IN  (/\ UseDeep(w)
                 /\ Falsy(w.item.comparator)
                 /\ w.item.transform = DefaultTransform
                 /\ w.item.target.v \notin Guarded
                 /\ w.old = SourceValue(w)
                 /\ ~w.everRaised)
                => StructEq(heap, TargetValue(w), heap, SourceValue(w), EqDepth)

----------------------------------------------------------------------------
(* Claims about the bidirectional version, checked under SpecFn *)

\* C17: when the reverse watch callback is called with a new target value
\* and the comparator lets it through, it returns normally and reading the
\* mapping's path from the source gives that value, whatever the source
\* object holds along the path.
C17_ReverseWriteLands ==
    (/\ arr.pc = "done" /\ arr.fn = "reverse" /\ IsObject(arr.a)
     /\ arr.r # "gated" /\ arr.cmp # Throw) =>
        /\ arr.r = "written"
        /\ getByPathCompiled(heap, arr.a, arr.b) = arr.new

----------------------------------------------------------------------------
(* SpecReuse: PropertySyncer called with default options and one mapping   *)
(* that has a transform, and an application that also replaces the array   *)
(* at a.b by a new array holding the elements it held.                     *)

InitReuse ==
    /\ InitEngine
    /\ cfg.entry = "direct"
    /\ cfg.options = NoOptions
    /\ IsArray(heap, cfg.mappings)
    /\ Length(heap, cfg.mappings) = 1
    /\ With(Get(heap, cfg.mappings, "0"), LAMBDA d :
          /\ IsObject(d)
          /\ Get(heap, d, "transform") = UserTransform
          /\ Get(heap, d, "copyData") = Undefined)

\* the application writes source.a.b = [{ id: 2 }, ...source.a.b]
PrependSource ==
    /\ pc = "running"
    /\ calls.mutations < MaxMutations
    /\ With(Get(heap, Get(heap, cfg.source, "a"), "b"), LAMBDA v :
          /\ IsArray(heap, v)
          /\ Length(heap, v) < MaxLen
          /\ With(Alloc(heap, ObjLit(<<Prop("id", Num(2))>>)), LAMBDA h1 :
             With(Alloc(h1, ArrLit(<<Ref(Len(h1))>>
                                   \o [i \in 1..Length(heap, v) |-> heap[v.v].props[i].v])),
                  LAMBDA h2 :
                 heap' = Set(h2, Get(heap, cfg.source, "a"), "b", Ref(Len(h2))))))
    /\ pending' = TRUE
    /\ calls' = [calls EXCEPT !.mutations = @ + 1]
    /\ UNCHANGED <<arr, pathCache, cfg, pc, subs, stops, cleanupKind, warnedPaths,
                   warnings, hooks, raised>>

NextReuse ==
    \/ StartDirect
    \/ ReplaceSource
    \/ PrependSource
    \/ Flush
    \/ Stop

SpecReuse == InitReuse /\ [][NextReuse]_vars

\* the objects of heap h reachable from value x in at most n steps
RECURSIVE Reachable(_, _, _)
Reachable(h, x, n) ==
    IF ~IsObject(x) THEN {}
    ELSE IF n = 0 THEN {x.v}
    ELSE {x.v} \cup UNION {Reachable(h, h[x.v].props[i].v, n - 1) :
                             i \in 1..Len(h[x.v].props)}

\* C21: a step of the engine (registration, a flush, cleanup) leaves the
\* source and every object reachable from it as they were, whatever the
\* comparator and the transform do.
C21_SourceIsReadOnly ==
    [][calls'.mutations = calls.mutations =>
          \A a \in Reachable(heap, cfg.source, EqDepth) : heap'[a] = heap[a]]_vars

----------------------------------------------------------------------------
(* Claims about compilePath and checkPathExists, checked under SpecFn *)

\* the segments a well-formed path names, written out
PathKeys(path) ==
    CASE path = PathAB -> <<"a", "b">>
      [] path = PathMissing -> <<"m", "x">>
      [] path = SomeStr -> <<"s">>
      [] path = PathA0 -> <<"a", "0">>
      [] path = PathToString -> <<"toString">>

\* the value reached from x by reading keys[i..] one after the other;
\* undefined as soon as x is no object
RECURSIVE Follow(_, _, _, _)
Follow(h, x, keys, i) ==
    IF i > Len(keys) THEN x
    ELSE IF ~IsObject(x) THEN Undefined
    ELSE Follow(h, Get(h, x, keys[i]), keys, i + 1)

\* every key of keys[i..] is an own key of the container reached so far
RECURSIVE OwnPath(_, _, _, _)
OwnPath(h, x, keys, i) ==
    IF i > Len(keys) THEN TRUE
    ELSE /\ IsObject(x)
         /\ HasOwn(h, x, keys[i])
         /\ OwnPath(h, Get(h, x, keys[i]), keys, i + 1)

\* C22: for every root and well-formed path the accessor of compilePath
\* returns the value reached by following the path's segments in order,
\* and undefined as soon as the value reached is null, undefined or no
\* object (a missing container, an index past the end of an array).
C22_AccessorFollowsSegments ==
    (arr.pc = "done" /\ arr.fn = "accessor") =>
        arr.r = Follow(heap, arr.a, PathKeys(arr.b), 1)

\* the accessor of 'a[0]' read element 0 of the array at a, and the one of
\* 'a.b' stopped at a null
C22_Witness ==
    /\ arr.pc = "done" /\ arr.fn = "accessor"
    /\ \/ arr.b = PathA0 /\ arr.a = Ref(16) /\ arr.r = Num(1)
       \/ arr.b = PathA0 /\ arr.a = Ref(17) /\ arr.r = Undefined
       \/ arr.b = PathAB /\ arr.a = Ref(14) /\ arr.r = Undefined

\* C23: checkPathExists(root, path) is true exactly when every segment is
\* an own key of the container reached so far, so it is false for a
\* segment that names an inherited property only.
C23_ExistsMeansOwnKeys ==
    (arr.pc = "done" /\ arr.fn = "checkPathExists") =>
        (arr.r = Bool(TRUE) <=> OwnPath(heap, arr.a, PathKeys(arr.b), 1))

\* C25: isDeepEqual(a, b) is isDeepEqual(b, a) for values without cycles.
C25_DeepEqualIsSymmetric ==
    (arr.pc = "done" /\ arr.fn = "isDeepEqual" /\ {arr.a, arr.b} \cap Cyclic = {}) =>
        arr.r = DeepEqual(heap, arr.b, arr.a)

----------------------------------------------------------------------------
(* SpecCache: calls of compilePath and getByPath one after the other on    *)
(* the objects of FnHeap.  arr holds the number n of calls made, the last  *)
(* call (fn, a, b, its result r or the accessor acc it returned), and what *)
(* the first call with each argument gave: first[p] for compilePath(p),    *)
(* got[<<root, p>>] for getByPath(root, p).                                *)

MaxCalls == 3

CachePaths == {PathAB, PathA0, Str(PathToString.v + 1)}
CacheRoots == {Ref(12), Ref(16), Num(1)}

InitCache ==
    /\ heap = FnHeap
    /\ arr = [pc |-> "calls", n |-> 0, fn |-> "none", a |-> Undefined,
              b |-> Undefined, r |-> Undefined, acc |-> Undefined,
              first |-> <<>>, got |-> <<>>]
    /\ pathCache = <<>>
    /\ cfg = [source |-> Undefined]
    /\ pc = "none"
    /\ subs = <<>>
    /\ stops = <<>>
    /\ cleanupKind = "none"
    /\ warnedPaths = {}
    /\ warnings = <<>>
    /\ hooks = 0
    /\ pending = FALSE
    /\ calls = [stop |-> 0, mutations |-> 0]
    /\ raised = {}

\* f with x mapped to y unless f has x
Noted(f, x, y) ==
    IF x \in DOMAIN f THEN f ELSE [z \in DOMAIN f \cup {x} |-> IF z = x THEN y ELSE f[z]]

\* compilePath(path)
CacheCompilePath ==
    /\ arr.pc = "calls"
    /\ arr.n < MaxCalls
    /\ \E path \in CachePaths :
          With(compilePath(pathCache, path), LAMBDA c :
              /\ arr' = [arr EXCEPT !.n = @ + 1, !.fn = "compilePath", !.a = Undefined,
                                    !.b = path, !.r = Undefined, !.acc = c.fn,
                                    !.first = Noted(@, path, c.fn)]
              /\ pathCache' = c.cache)
    /\ UNCHANGED <<heap, cfg, pc, subs, stops, cleanupKind, warnedPaths, warnings,
                   hooks, pending, calls, raised>>

\* getByPath(root, path)
CacheGetByPath ==
    /\ arr.pc = "calls"
    /\ arr.n < MaxCalls
    /\ \E root \in CacheRoots, path \in CachePaths :
          With(getByPath(pathCache, heap, root, path), LAMBDA g :
              /\ arr' = [arr EXCEPT !.n = @ + 1, !.fn = "getByPath", !.a = root,
                                    !.b = path, !.r = g.v, !.acc = Undefined,
                                    !.got = Noted(@, <<root, path>>, g.v)]
              /\ pathCache' = g.cache)
    /\ UNCHANGED <<heap, cfg, pc, subs, stops, cleanupKind, warnedPaths, warnings,
                   hooks, pending, calls, raised>>

NextCache == CacheCompilePath \/ CacheGetByPath

SpecCache == InitCache /\ [][NextCache]_vars

\* C24: the path cache only grows, an entry is never removed or replaced;
\* compilePath(p) returns the accessor it returned the first time, and
\* getByPath(root, p) the value it returned the first time, and no call
\* changes an object.
C24_CacheOnlyGrows ==
    /\ [][\A p \in DOMAIN pathCache :
             p \in DOMAIN pathCache' /\ pathCache'[p] = pathCache[p]]_vars
    /\ [](arr.fn = "compilePath" =>
             arr.acc = arr.first[arr.b] /\ pathCache[arr.b.v] = arr.acc)
    /\ [](arr.fn = "getByPath" => arr.r = arr.got[<<arr.a, arr.b>>])
    /\ [](heap = FnHeap)

\* the same path was compiled twice and resolved on the same root twice
C24_Witness ==
    /\ arr.n = MaxCalls
    /\ arr.fn = "getByPath"
    /\ arr.b \in DOMAIN arr.first
    /\ arr.b.v \in DOMAIN pathCache
    /\ Cardinality(DOMAIN arr.got) = 1
    /\ Cardinality(DOMAIN pathCache) = 1

----------------------------------------------------------------------------
(* SpecBidi: PropertySyncer of the bidirectional version called with       *)
(* { bidirectional: true } and the mapping { path: 'a.b', target, transform } *)
(* on the source { a: { b: <number> } }, and its host.  The forward watch  *)
(* has the getter () => transform(getByPath(source, path)), the reverse    *)
(* watch watches the target; a write that changes what a watch reads       *)
(* queues the job of the watch, and a job calls the callback when the      *)
(* value it reads is not the one it read before.  arr holds the transform, *)
(* options.immediate, the value each watch read last (fwdOld, revOld) and  *)
(* which jobs are queued (fwd, rev).                                       *)

\* pure transforms: v => v, v => 7, v => 3 - v
BidiTransforms == {"same", "seven", "swap"}

ApplyPure(kind, x) ==
    CASE kind = "same" -> x
      [] kind = "seven" -> Num(7)
      [] kind = "swap" -> IF x.t = "number" THEN Num(3 - x.v) ELSE x

\* the numbers the application writes
BidiValues == {Num(1), Num(2), Num(7)}

\* the getter of the forward watch
forwardGetter(h, kind) == ApplyPure(kind, getByPathCompiled(h, SourceRoot, PathAB))

InitBidi ==
    /\ \E kind \in BidiTransforms, x \in BidiValues, immediate \in BOOLEAN :
          /\ heap = Set(BaseHeap, SourceInner, "b", x)
          /\ arr = [pc |-> "init", transform |-> kind, immediate |-> immediate,
                    fwdOld |-> Undefined,
                    revOld |-> Undefined, fwd |-> FALSE, rev |-> FALSE]
    /\ pathCache = <<>>
    /\ cfg = [source |-> SourceRoot]
    /\ pc = "none"
    /\ subs = <<>>
    /\ stops = <<>>
    /\ cleanupKind = "none"
    /\ warnedPaths = {}
    /\ warnings = <<>>
    /\ hooks = 0
    /\ pending = FALSE
    /\ calls = [stop |-> 0, mutations |-> 0]
    /\ raised = {}

\* PropertySyncer(source, [{ path, target, transform }], { bidirectional: true }):
\* the forward watch is created, and with options.immediate its callback
\* assigns the target; then the reverse watch is created
StartBidi ==
    /\ arr.pc = "init"
    /\ With(forwardGetter(heap, arr.transform), LAMBDA g :
       With(IF arr.immediate /\ g # Undefined
            THEN Set(heap, Cell1, "value", g) ELSE heap, LAMBDA h1 :
          /\ heap' = h1
          /\ arr' = [arr EXCEPT !.pc = "running", !.fwdOld = g,
                                !.revOld = Get(h1, Cell1, "value")]))
    /\ UNCHANGED engineVars

\* the application writes source.a.b = x
WriteSource ==
    /\ arr.pc = "running"
    /\ calls.mutations < MaxMutations
    /\ \E x \in BidiValues :
          /\ x # Get(heap, SourceInner, "b")
          /\ heap' = Set(heap, SourceInner, "b", x)
    /\ arr' = [arr EXCEPT !.fwd = TRUE]
    /\ calls' = [calls EXCEPT !.mutations = @ + 1]
    /\ UNCHANGED <<pathCache, cfg, pc, subs, stops, cleanupKind, warnedPaths,
                   warnings, hooks, pending, raised>>

\* the application writes target.value = x
WriteTarget ==
    /\ arr.pc = "running"
    /\ calls.mutations < MaxMutations
    /\ \E x \in BidiValues :
          /\ x # Get(heap, Cell1, "value")
          /\ heap' = Set(heap, Cell1, "value", x)
    /\ arr' = [arr EXCEPT !.rev = TRUE]
    /\ calls' = [calls EXCEPT !.mutations = @ + 1]
    /\ UNCHANGED <<pathCache, cfg, pc, subs, stops, cleanupKind, warnedPaths,
                   warnings, hooks, pending, raised>>

\* the host runs the job of the forward watch: (newVal, oldVal) =>
\* { if (!comparator(newVal, oldVal)) return; target.value = newVal }
\* with the default comparator a !== b
ForwardJob ==
    /\ arr.pc = "running"
    /\ arr.fwd
    /\ With(forwardGetter(heap, arr.transform), LAMBDA g :
          /\ heap' = IF g # arr.fwdOld THEN Set(heap, Cell1, "value", g) ELSE heap
          /\ arr' = [arr EXCEPT !.fwd = FALSE, !.fwdOld = g,
                                !.rev = @ \/ (g # arr.fwdOld
                                              /\ g # Get(heap, Cell1, "value"))])
    /\ UNCHANGED engineVars

\* the host runs the job of the reverse watch
ReverseJob ==
    /\ arr.pc = "running"
    /\ arr.rev
    /\ With(Get(heap, Cell1, "value"), LAMBDA x :
       With(IF x # arr.revOld
            THEN reverseHandler(heap, SourceRoot, PathAB, NoCall, x, arr.revOld).h
            ELSE heap, LAMBDA h1 :
          /\ heap' = h1
          /\ arr' = [arr EXCEPT !.rev = FALSE, !.revOld = x,
                                !.fwd = @ \/ Get(h1, SourceInner, "b")
                                               # Get(heap, SourceInner, "b")]))
    /\ UNCHANGED engineVars

NextBidi ==
    \/ StartBidi
    \/ WriteSource
    \/ WriteTarget
    \/ ForwardJob
    \/ ReverseJob

SpecBidi == InitBidi /\ [][NextBidi]_vars

\* the host runs a job that is queued
SpecBidiLive == SpecBidi /\ WF_vars(ForwardJob) /\ WF_vars(ReverseJob)

\* no job is queued and target.value is the transform of source.a.b
Settled ==
    /\ ~arr.fwd /\ ~arr.rev
    /\ Get(heap, Cell1, "value") = forwardGetter(heap, arr.transform)

\* C26: after one write of the application to the source at the path or to
\* the target, the two watches come to rest after finitely many runs, with
\* target.value the transform of the value at the path (for as long as the
\* application writes nothing more).
C26_WatchersSettle ==
    [](calls.mutations = 1 => <>[](calls.mutations = 1 => Settled))

====
